---------------------------- MODULE Spec2Model ----------------------------
(***************************************************************************)
(* K-1 validation: the deterministic evaluator (validate_k1 and its rule   *)
(* checks), the report models, the result combiner, the cross-partner      *)
(* runner, the per-run pipeline with the shared Parquet store, and the     *)
(* report browser (the Express report list and the React report detail).   *)
(*                                                                         *)
(* Amounts are whole dollars.  An Optional field is <<>> (None) or <<v>>.  *)
(* A percentage is in hundredths of a percent (60.00% is 6000), a          *)
(* coherence score in hundredths (0.5 is 50).                              *)
(***************************************************************************)
EXTENDS Integers, Sequences, FiniteSets, TLC

VARIABLES
    pc,        \* run -> position of the run in the asset DAG
    doc,       \* run -> the document the run processes (EIN, TIN, extracted data)
    step,      \* run -> number of check functions validate_k1 has appended so far
    checks,    \* run -> validate_k1's local list of checks
    det,       \* run -> staged deterministic_validation.json  (<<>> or <<report>>)
    ai,        \* run -> staged ai_validation.json             (<<>> or <<score>>)
    combined,  \* run -> K1CombinedValidation                  (<<>> or <<result>>)
    parquet,   \* output/k1_records.parquet on S3: the committed rows
    lock,      \* holder of the upsert file lock, 0 when free
    buf,       \* run -> rows the upsert has read and is modifying
    versions,  \* every content the Parquet object has held, in commit order
    snapshot,  \* rows cross_partner_validation loaded last
    cross,     \* cross_partner_results.json: the results of the last cross run
    bucket,    \* the S3 bucket the report server reads: reachable or not, key -> object
    response,  \* the last response of GET /api/reports  (<<>> or <<response>>)
    view       \* ReportDetail's last render of the validation tab (<<>> or <<props>>)

\* the state of the pipeline
pipeline == <<pc, doc, step, checks, det, ai, combined, parquet, lock, buf,
              versions, snapshot, cross>>

\* the state of the report browser
frontend == <<bucket, response, view>>

vars == <<pc, doc, step, checks, det, ai, combined, parquet, lock, buf,
          versions, snapshot, cross, bucket, response, view>>

-----------------------------------------------------------------------------
(* Optional values and small numeric helpers *)

None == <<>>

Some(v) == <<v>>

IsNone(x) == x = <<>>

NotNone(x) == x # <<>>

Val(x) == x[1]

\* a reachable bucket that holds no object
NoBucket == [reachable |-> TRUE, objects |-> <<>>]

\* Python's `x or 0.0`
OrZero(x) == IF IsNone(x) THEN 0 ELSE Val(x)

Abs(n) == IF n < 0 THEN -n ELSE n

Max2(a, b) == IF a >= b THEN a ELSE b

RECURSIVE SumSeq(_)
SumSeq(s) == IF s = <<>> THEN 0 ELSE Head(s) + SumSeq(Tail(s))

RECURSIVE Flatten(_)
Flatten(ss) == IF ss = <<>> THEN <<>> ELSE Head(ss) \o Flatten(Tail(ss))

\* sum(v for v in fields if v is not None)
RECURSIVE SumPresent(_, _)
SumPresent(data, fs) ==
    IF fs = <<>> THEN 0
    ELSE OrZero(data[Head(fs)]) + SumPresent(data, Tail(fs))

-----------------------------------------------------------------------------
(* Strings of the model.  lower(), strip(), the regular expression and the *)
(* substring tests are tabulated over the strings a document may carry.    *)

\* str.lower()
Lower(s) ==
    CASE s = "General Partner" -> "general partner"
      [] s = "Limited Partner" -> "limited partner"
      [] s = "LLC Member"      -> "llc member"
      [] OTHER                 -> s   \* the other strings have no upper case

\* str.strip()
Strip(s) ==
    CASE s = " limited partner " -> "limited partner"
      [] s = "  "                -> ""
      [] OTHER                   -> s \* the other strings have no outer blanks

\* `sub in s` for the lower-cased partner types
Contains(sub, s) ==
    CASE sub = "general" -> s \in {"general partner"}
      [] sub = "limited" -> s \in {"limited partner", " limited partner "}
      [] OTHER           -> FALSE

\* re.match(r"^\d{4}$", s)
MatchesFourDigits(s) == s \in {"2023", "2024"}

\* truthiness of an Optional[str]
Truthy(x) == NotNone(x) /\ Val(x) # ""

-----------------------------------------------------------------------------
(* 2.1 Validation infrastructure models *)

CRITICAL == "critical"

WARNING == "warning"

ADVISORY == "advisory"

Severity == {CRITICAL, WARNING, ADVISORY}

\* DeterministicCheck(rule_id=..., severity=..., passed=..., message=...)
DeterministicCheck(id, sev, ok, msg) ==
    [rule_id |-> id, severity |-> sev, passed |-> ok, message |-> msg]

\* sum(1 for c in checks if c.severity == sev and not c.passed)
RECURSIVE CountFailing(_, _)
CountFailing(cs, sev) ==
    IF cs = <<>> THEN 0
    ELSE (IF Head(cs).severity = sev /\ ~Head(cs).passed THEN 1 ELSE 0)
         + CountFailing(Tail(cs), sev)

\* a counting slip: every check of the severity is counted, passed or not
RECURSIVE CountFailingAnyOutcome(_, _)
CountFailingAnyOutcome(cs, sev) ==
    IF cs = <<>> THEN 0
    ELSE (IF Head(cs).severity = sev THEN 1 ELSE 0)
         + CountFailingAnyOutcome(Tail(cs), sev)

\* a slip in the derived flag: warnings make the report fail as well
compute_counts_strict(cs) ==
    [checks         |-> cs,
     critical_count |-> CountFailing(cs, CRITICAL),
     warning_count  |-> CountFailing(cs, WARNING),
     advisory_count |-> CountFailing(cs, ADVISORY),
     passed         |-> (CountFailing(cs, CRITICAL) = 0
                         /\ CountFailing(cs, WARNING) = 0)]

\* a slip in the counts: they ignore the passed flag
compute_counts_all(cs) ==
    [checks         |-> cs,
     critical_count |-> CountFailingAnyOutcome(cs, CRITICAL),
     warning_count  |-> CountFailingAnyOutcome(cs, WARNING),
     advisory_count |-> CountFailingAnyOutcome(cs, ADVISORY),
     passed         |-> (CountFailingAnyOutcome(cs, CRITICAL) = 0)]

\* K1ValidationReport(checks=cs) / PartnershipValidationResult: the model
\* validator compute_counts runs on construction
compute_counts(cs) ==
    [checks         |-> cs,
     critical_count |-> CountFailing(cs, CRITICAL),
     warning_count  |-> CountFailing(cs, WARNING),
     advisory_count |-> CountFailing(cs, ADVISORY),
     passed         |-> (CountFailing(cs, CRITICAL) = 0)]

K1ValidationReport(cs) == compute_counts(cs)

-----------------------------------------------------------------------------
(* 2.3 Individual check implementations.  Each operator gives the checks   *)
(* its function hands to validate_k1, as a sequence.                       *)

IncomeFields ==
    <<"ordinary_business_income", "rental_real_estate_income",
      "guaranteed_payments", "interest_income", "ordinary_dividends",
      "short_term_capital_gains", "long_term_capital_gains">>

\* an ARITH-001 that reports the excess as a warning
_check_arith_001_as_warning(data) ==
    IF /\ NotNone(data.qualified_dividends)
       /\ NotNone(data.ordinary_dividends)
       /\ Val(data.qualified_dividends) > Val(data.ordinary_dividends)
    THEN <<DeterministicCheck("ARITH-001", WARNING, FALSE,
              <<"Qualified dividends exceed ordinary dividends",
                Val(data.qualified_dividends), Val(data.ordinary_dividends)>>)>>
    ELSE <<DeterministicCheck("ARITH-001", WARNING, TRUE, <<>>)>>

\* ARITH-001: qualified dividends cannot exceed ordinary dividends
_check_arith_001(data) ==
    IF /\ NotNone(data.qualified_dividends)
       /\ NotNone(data.ordinary_dividends)
       /\ Val(data.qualified_dividends) > Val(data.ordinary_dividends)
    THEN <<DeterministicCheck("ARITH-001", CRITICAL, FALSE,
              <<"Qualified dividends exceed ordinary dividends",
                Val(data.qualified_dividends), Val(data.ordinary_dividends)>>)>>
    ELSE <<DeterministicCheck("ARITH-001", CRITICAL, TRUE, <<>>)>>

\* an ARITH-002 that lets a share of exactly zero pass
_check_arith_002_zero_valid(data) ==
    IF /\ NotNone(data.partner_share_percentage)
       /\ \/ Val(data.partner_share_percentage) < 0
          \/ Val(data.partner_share_percentage) > 10000
    THEN <<DeterministicCheck("ARITH-002", CRITICAL, FALSE,
              <<"partner_share_percentage must be > 0 and <= 100",
                Val(data.partner_share_percentage)>>)>>
    ELSE <<DeterministicCheck("ARITH-002", CRITICAL, TRUE, <<>>)>>

\* ARITH-002: partner share percentage must be > 0 and <= 100
_check_arith_002(data) ==
    IF /\ NotNone(data.partner_share_percentage)
       /\ \/ Val(data.partner_share_percentage) <= 0
          \/ Val(data.partner_share_percentage) > 10000
    THEN <<DeterministicCheck("ARITH-002", CRITICAL, FALSE,
              <<"partner_share_percentage must be > 0 and <= 100",
                Val(data.partner_share_percentage)>>)>>
    ELSE <<DeterministicCheck("ARITH-002", CRITICAL, TRUE, <<>>)>>

Arith003Fields ==
    <<"ordinary_dividends", "qualified_dividends", "guaranteed_payments",
      "section_179_deduction", "foreign_taxes_paid", "distributions">>

Arith003Id(f) ==
    CASE f = "ordinary_dividends"    -> "ARITH-003-ordinary_dividends"
      [] f = "qualified_dividends"   -> "ARITH-003-qualified_dividends"
      [] f = "guaranteed_payments"   -> "ARITH-003-guaranteed_payments"
      [] f = "section_179_deduction" -> "ARITH-003-section_179_deduction"
      [] f = "foreign_taxes_paid"    -> "ARITH-003-foreign_taxes_paid"
      [] f = "distributions"         -> "ARITH-003-distributions"

\* a non-negative check that reports a negative value as a warning
NonNegativeCheckAsWarning(id, data, f) ==
    LET value == data[f]
        passed == IsNone(value) \/ Val(value) >= 0
    IN  DeterministicCheck(id, WARNING, passed,
            IF passed THEN <<>> ELSE <<"must be >= 0", f, Val(value)>>)

\* one iteration of the loop over non_negative_fields
NonNegativeCheck(id, data, f) ==
    LET value == data[f]
        passed == IsNone(value) \/ Val(value) >= 0
    IN  DeterministicCheck(id, CRITICAL, passed,
            IF passed THEN <<>> ELSE <<"must be >= 0", f, Val(value)>>)

\* a loop that skips the fields the document does not carry
_check_arith_003_skipping(data) ==
    LET present == SelectSeq(Arith003Fields, LAMBDA f : NotNone(data[f]))
    IN  [i \in 1..Len(present) |->
            NonNegativeCheck(Arith003Id(present[i]), data, present[i])]

\* ARITH-003: non-negative field constraints
_check_arith_003(data) ==
    [i \in 1..Len(Arith003Fields) |->
        NonNegativeCheck(Arith003Id(Arith003Fields[i]), data, Arith003Fields[i])]

\* ARITH-005: capital account directional plausibility
_check_arith_005(data) ==
    IF IsNone(data.capital_account_beginning) \/ IsNone(data.capital_account_ending)
    THEN <<DeterministicCheck("ARITH-005", ADVISORY, TRUE, <<>>)>>
    ELSE
      LET known_income        == SumPresent(data, IncomeFields)
          known_distributions == OrZero(data.distributions)
          actual_change       == Val(data.capital_account_ending)
                                 - Val(data.capital_account_beginning)
          estimated_change    == known_income - known_distributions
          unexplained         == actual_change - estimated_change
          magnitude           == Max2(Max2(Abs(Val(data.capital_account_beginning)),
                                           Abs(Val(data.capital_account_ending))), 1)
      IN  IF Abs(unexplained) > magnitude * 2
          THEN <<DeterministicCheck("ARITH-005", ADVISORY, FALSE,
                    <<"Large unexplained capital account change", unexplained>>)>>
          ELSE <<DeterministicCheck("ARITH-005", ADVISORY, TRUE, <<>>)>>

\* ARITH-006: SE earnings for general partners ~ Box 1 + Box 4
\* tolerance = max(abs(expected_se) * 0.15, 1000.0)
_check_arith_006(data) ==
    IF ~(/\ Truthy(data.partner_type)
         /\ Contains("general", Lower(Val(data.partner_type)))
         /\ NotNone(data.self_employment_earnings)
         /\ NotNone(data.ordinary_business_income))
    THEN <<DeterministicCheck("ARITH-006", WARNING, TRUE, <<>>)>>
    ELSE
      LET expected_se == OrZero(data.ordinary_business_income)
                         + OrZero(data.guaranteed_payments)
          gap         == Abs(Val(data.self_employment_earnings) - expected_se)
      IN  IF gap * 100 > Abs(expected_se) * 15 /\ gap > 1000
          THEN <<DeterministicCheck("ARITH-006", WARNING, FALSE,
                    <<"General partner SE earnings differs from Box 1 + Box 4",
                      Val(data.self_employment_earnings), expected_se>>)>>
          ELSE <<DeterministicCheck("ARITH-006", WARNING, TRUE, <<>>)>>

\* ARITH-007: limited partner SE earnings should only include guaranteed payments
_check_arith_007(data) ==
    IF ~(/\ Truthy(data.partner_type)
         /\ Contains("limited", Lower(Val(data.partner_type)))
         /\ NotNone(data.self_employment_earnings)
         /\ NotNone(data.guaranteed_payments))
    THEN <<DeterministicCheck("ARITH-007", WARNING, TRUE, <<>>)>>
    ELSE
      IF Val(data.self_employment_earnings) > Val(data.guaranteed_payments) + 100
      THEN <<DeterministicCheck("ARITH-007", WARNING, FALSE,
                <<"Limited partner SE earnings exceeds guaranteed payments",
                  Val(data.self_employment_earnings), Val(data.guaranteed_payments)>>)>>
      ELSE <<DeterministicCheck("ARITH-007", WARNING, TRUE, <<>>)>>

\* ARITH-008: QBI deduction plausibility vs Box 1 - Box 4
\* tolerance = max(abs(ordinary_business_income) * 0.25, 5000.0)
_check_arith_008(data) ==
    IF IsNone(data.qbi_deduction) \/ IsNone(data.ordinary_business_income)
    THEN <<DeterministicCheck("ARITH-008", ADVISORY, TRUE, <<>>)>>
    ELSE
      LET estimated_qbi == Val(data.ordinary_business_income)
                           - OrZero(data.guaranteed_payments)
          gap           == Abs(Val(data.qbi_deduction) - estimated_qbi)
      IN  IF gap * 4 > Abs(Val(data.ordinary_business_income)) /\ gap > 5000
          THEN <<DeterministicCheck("ARITH-008", ADVISORY, FALSE,
                    <<"QBI differs from estimated Box 1 - Box 4",
                      Val(data.qbi_deduction), estimated_qbi>>)>>
          ELSE <<DeterministicCheck("ARITH-008", ADVISORY, TRUE, <<>>)>>

\* ARITH-009: ordinary dividends must be present when qualified are reported
_check_arith_009(data) ==
    IF /\ NotNone(data.qualified_dividends)
       /\ Val(data.qualified_dividends) > 0
       /\ IsNone(data.ordinary_dividends)
    THEN <<DeterministicCheck("ARITH-009", CRITICAL, FALSE,
              <<"Qualified dividends reported but ordinary dividends missing">>)>>
    ELSE <<DeterministicCheck("ARITH-009", CRITICAL, TRUE, <<>>)>>

\* ARITH-010: foreign taxes paid should have income context
_check_arith_010(data) ==
    LET has_income == \E i \in DOMAIN IncomeFields :
                          /\ NotNone(data[IncomeFields[i]])
                          /\ Val(data[IncomeFields[i]]) # 0
    IN  IF /\ NotNone(data.foreign_taxes_paid)
           /\ Val(data.foreign_taxes_paid) > 0
           /\ ~has_income
        THEN <<DeterministicCheck("ARITH-010", WARNING, FALSE,
                  <<"Foreign taxes paid but no income in any box",
                    Val(data.foreign_taxes_paid)>>)>>
        ELSE <<DeterministicCheck("ARITH-010", WARNING, TRUE, <<>>)>>

\* ARITH-011: section 179 reasonableness relative to ordinary income
_check_arith_011(data) ==
    IF /\ NotNone(data.section_179_deduction)
       /\ Val(data.section_179_deduction) > 0
       /\ NotNone(data.ordinary_business_income)
       /\ Val(data.ordinary_business_income) > 0
       /\ Val(data.section_179_deduction) > Val(data.ordinary_business_income) * 5
    THEN <<DeterministicCheck("ARITH-011", ADVISORY, FALSE,
              <<"Section 179 is much larger than ordinary income",
                Val(data.section_179_deduction), Val(data.ordinary_business_income)>>)>>
    ELSE <<DeterministicCheck("ARITH-011", ADVISORY, TRUE, <<>>)>>

-----------------------------------------------------------------------------
(* Field constraint rules *)

ValidPartnerTypes ==
    {"general partner", "limited partner", "llc member-manager", "llc member",
     "general partner or llc member-manager",
     "limited partner or other llc member"}

\* required field checks that pass a field that is absent and fail only one
\* that is given and invalid
_check_fc_001_004_absent_passes(data) ==
    LET tax_year_valid == IsNone(data.tax_year)
                          \/ (/\ Val(data.tax_year) # ""
                              /\ MatchesFourDigits(Val(data.tax_year)))
        name_valid     == IsNone(data.partnership_name)
                          \/ Strip(Val(data.partnership_name)) # ""
        type_valid     == IsNone(data.partner_type)
                          \/ Strip(Lower(Val(data.partner_type))) \in ValidPartnerTypes
    IN  << DeterministicCheck("FC-001", CRITICAL, tax_year_valid,
               IF tax_year_valid THEN <<>>
               ELSE <<"tax_year is missing or invalid", data.tax_year>>),
           DeterministicCheck("FC-003", CRITICAL, name_valid,
               IF name_valid THEN <<>>
               ELSE <<"partnership_name is missing or empty">>),
           DeterministicCheck("FC-004", CRITICAL, type_valid,
               IF type_valid THEN <<>>
               ELSE <<"partner_type invalid", data.partner_type>>) >>

\* FC-001 through FC-004: required field checks
_check_fc_001_004(data) ==
    LET tax_year_valid == /\ NotNone(data.tax_year)
                          /\ Val(data.tax_year) # ""
                          /\ MatchesFourDigits(Val(data.tax_year))
        name_valid     == /\ NotNone(data.partnership_name)
                          /\ Strip(Val(data.partnership_name)) # ""
        type_valid     == /\ NotNone(data.partner_type)
                          /\ Strip(Lower(Val(data.partner_type))) \in ValidPartnerTypes
    IN  << DeterministicCheck("FC-001", CRITICAL, tax_year_valid,
               IF tax_year_valid THEN <<>>
               ELSE <<"tax_year is missing or invalid", data.tax_year>>),
           DeterministicCheck("FC-003", CRITICAL, name_valid,
               IF name_valid THEN <<>>
               ELSE <<"partnership_name is missing or empty">>),
           DeterministicCheck("FC-004", CRITICAL, type_valid,
               IF type_valid THEN <<>>
               ELSE <<"partner_type invalid", data.partner_type>>) >>

\* FC-010: partner_share_percentage in [0, 100]
_check_fc_010(data) ==
    IF /\ NotNone(data.partner_share_percentage)
       /\ \/ Val(data.partner_share_percentage) < 0
          \/ Val(data.partner_share_percentage) > 10000
    THEN <<DeterministicCheck("FC-010", CRITICAL, FALSE,
              <<"partner_share_percentage outside [0, 100]",
                Val(data.partner_share_percentage)>>)>>
    ELSE <<DeterministicCheck("FC-010", CRITICAL, TRUE, <<>>)>>

Fc021Fields ==
    <<"guaranteed_payments", "interest_income", "ordinary_dividends",
      "qualified_dividends", "section_179_deduction", "foreign_taxes_paid",
      "distributions">>

Fc021Id(f) ==
    CASE f = "guaranteed_payments"   -> "FC-021-guaranteed_payments"
      [] f = "interest_income"       -> "FC-021-interest_income"
      [] f = "ordinary_dividends"    -> "FC-021-ordinary_dividends"
      [] f = "qualified_dividends"   -> "FC-021-qualified_dividends"
      [] f = "section_179_deduction" -> "FC-021-section_179_deduction"
      [] f = "foreign_taxes_paid"    -> "FC-021-foreign_taxes_paid"
      [] f = "distributions"         -> "FC-021-distributions"

\* FC-021: non-negative field enforcement
_check_fc_021(data) ==
    [i \in 1..Len(Fc021Fields) |->
        NonNegativeCheck(Fc021Id(Fc021Fields[i]), data, Fc021Fields[i])]

\* a limit that is the most recent one whatever the year
Section179LimitLatest(tax_year) == 1250000

\* SECTION_179_LIMITS.get(tax_year or "", 1_250_000)
Section179Limit(tax_year) ==
    LET y == IF IsNone(tax_year) THEN "" ELSE Val(tax_year)
    IN  CASE y = "2020" -> 1040000
          [] y = "2021" -> 1050000
          [] y = "2022" -> 1080000
          [] y = "2023" -> 1160000
          [] y = "2024" -> 1220000
          [] y = "2025" -> 1250000
          [] OTHER      -> 1250000

\* FC-031: section 179 statutory limit
_check_fc_031(data) ==
    IF /\ NotNone(data.section_179_deduction)
       /\ Val(data.section_179_deduction) > 0
       /\ Val(data.section_179_deduction) > Section179Limit(data.tax_year)
    THEN <<DeterministicCheck("FC-031", CRITICAL, FALSE,
              <<"Section 179 exceeds statutory limit",
                Val(data.section_179_deduction), Section179Limit(data.tax_year)>>)>>
    ELSE <<DeterministicCheck("FC-031", CRITICAL, TRUE, <<>>)>>

\* FC-032: SE earnings vs partner type consistency
\* abs(self_employment_earnings) > abs(guaranteed_payments) * 1.1
_check_fc_032(data) ==
    IF /\ Truthy(data.partner_type)
       /\ Contains("limited", Lower(Val(data.partner_type)))
       /\ NotNone(data.self_employment_earnings)
       /\ NotNone(data.guaranteed_payments)
       /\ Abs(Val(data.self_employment_earnings)) * 10
              > Abs(Val(data.guaranteed_payments)) * 11
    THEN <<DeterministicCheck("FC-032", WARNING, FALSE,
              <<"Limited partner SE earnings significantly exceed guaranteed payments",
                Val(data.self_employment_earnings), Val(data.guaranteed_payments)>>)>>
    ELSE <<DeterministicCheck("FC-032", WARNING, TRUE, <<>>)>>

\* MAGNITUDE_THRESHOLDS, in the dictionary's order: field, id, lo, hi
MagnitudeThresholds ==
    << <<"ordinary_business_income",  "FC-040-ordinary_business_income",  -50000000, 100000000>>,
       <<"rental_real_estate_income", "FC-040-rental_real_estate_income", -20000000,  20000000>>,
       <<"guaranteed_payments",       "FC-040-guaranteed_payments",               0,   5000000>>,
       <<"interest_income",           "FC-040-interest_income",                   0,  10000000>>,
       <<"ordinary_dividends",        "FC-040-ordinary_dividends",                0,  50000000>>,
       <<"qualified_dividends",       "FC-040-qualified_dividends",               0,  50000000>>,
       <<"short_term_capital_gains",  "FC-040-short_term_capital_gains",  -50000000, 100000000>>,
       <<"long_term_capital_gains",   "FC-040-long_term_capital_gains",   -50000000, 500000000>>,
       <<"section_179_deduction",     "FC-040-section_179_deduction",             0,   1500000>>,
       <<"self_employment_earnings",  "FC-040-self_employment_earnings",  -10000000,  10000000>>,
       <<"foreign_taxes_paid",        "FC-040-foreign_taxes_paid",                0,   1000000>>,
       <<"distributions",             "FC-040-distributions",                     0, 100000000>>,
       <<"qbi_deduction",             "FC-040-qbi_deduction",             -50000000, 100000000>>,
       <<"capital_account_beginning", "FC-040-capital_account_beginning", -50000000, 500000000>>,
       <<"capital_account_ending",    "FC-040-capital_account_ending",    -50000000, 500000000>> >>

\* FC-040: magnitude sanity checks for all monetary fields
_check_fc_040(data) ==
    [i \in 1..Len(MagnitudeThresholds) |->
        LET t      == MagnitudeThresholds[i]
            value  == data[t[1]]
            passed == IsNone(value) \/ (t[3] <= Val(value) /\ Val(value) <= t[4])
        IN  DeterministicCheck(t[2], ADVISORY, passed,
                IF passed THEN <<>>
                ELSE <<"outside typical range", t[1], Val(value), t[3], t[4]>>)]

-----------------------------------------------------------------------------
(* Capital account rules *)

\* a CAP-001 that reports a K-1 without both capital balances as a finding
_check_cap_001_absent_fails(data) ==
    IF IsNone(data.capital_account_beginning) \/ IsNone(data.capital_account_ending)
    THEN <<DeterministicCheck("CAP-001", WARNING, FALSE,
              <<"Capital account balances missing">>)>>
    ELSE
      LET net_income        == SumPresent(data, IncomeFields)
          net_deductions    == SumPresent(data, <<"section_179_deduction",
                                                  "foreign_taxes_paid">>)
          distributions_amt == OrZero(data.distributions)
          expected_ending   == Val(data.capital_account_beginning) + net_income
                               - net_deductions - distributions_amt
          discrepancy       == Abs(Val(data.capital_account_ending) - expected_ending)
      IN  IF /\ discrepancy * 4 > Abs(Val(data.capital_account_ending))
             /\ discrepancy > 10000
          THEN <<DeterministicCheck("CAP-001", WARNING, FALSE,
                    <<"Capital account discrepancy", expected_ending,
                      Val(data.capital_account_ending), discrepancy>>)>>
          ELSE <<DeterministicCheck("CAP-001", WARNING, TRUE, <<>>)>>

\* a CAP-001 whose tolerance is a quarter of the ending balance with no
\* floor under it
_check_cap_001_no_floor(data) ==
    IF IsNone(data.capital_account_beginning) \/ IsNone(data.capital_account_ending)
    THEN <<DeterministicCheck("CAP-001", WARNING, TRUE, <<>>)>>
    ELSE
      LET net_income        == SumPresent(data, IncomeFields)
          net_deductions    == SumPresent(data, <<"section_179_deduction",
                                                  "foreign_taxes_paid">>)
          distributions_amt == OrZero(data.distributions)
          expected_ending   == Val(data.capital_account_beginning) + net_income
                               - net_deductions - distributions_amt
          discrepancy       == Abs(Val(data.capital_account_ending) - expected_ending)
      IN  IF discrepancy * 4 > Abs(Val(data.capital_account_ending))
          THEN <<DeterministicCheck("CAP-001", WARNING, FALSE,
                    <<"Capital account discrepancy", expected_ending,
                      Val(data.capital_account_ending), discrepancy>>)>>
          ELSE <<DeterministicCheck("CAP-001", WARNING, TRUE, <<>>)>>

\* CAP-001: capital account reconciliation (soft check)
\* tolerance = max(abs(capital_account_ending) * 0.25, 10000.0)
_check_cap_001(data) ==
    IF IsNone(data.capital_account_beginning) \/ IsNone(data.capital_account_ending)
    THEN <<DeterministicCheck("CAP-001", WARNING, TRUE, <<>>)>>
    ELSE
      LET net_income        == SumPresent(data, IncomeFields)
          net_deductions    == SumPresent(data, <<"section_179_deduction",
                                                  "foreign_taxes_paid">>)
          distributions_amt == OrZero(data.distributions)
          expected_ending   == Val(data.capital_account_beginning) + net_income
                               - net_deductions - distributions_amt
          discrepancy       == Abs(Val(data.capital_account_ending) - expected_ending)
      IN  IF /\ discrepancy * 4 > Abs(Val(data.capital_account_ending))
             /\ discrepancy > 10000
          THEN <<DeterministicCheck("CAP-001", WARNING, FALSE,
                    <<"Capital account discrepancy", expected_ending,
                      Val(data.capital_account_ending), discrepancy>>)>>
          ELSE <<DeterministicCheck("CAP-001", WARNING, TRUE, <<>>)>>

-----------------------------------------------------------------------------
(* 2.2 Validation runner *)

\* the calls of validate_k1, in order: CheckCall(i, data) is what the i-th
\* call appends or extends the list with
NumCheckCalls == 17

CheckCall(i, data) ==
    CASE i = 1  -> _check_arith_001(data)
      [] i = 2  -> _check_arith_002(data)
      [] i = 3  -> _check_arith_003(data)
      [] i = 4  -> _check_arith_005(data)
      [] i = 5  -> _check_arith_006(data)
      [] i = 6  -> _check_arith_007(data)
      [] i = 7  -> _check_arith_008(data)
      [] i = 8  -> _check_arith_009(data)
      [] i = 9  -> _check_arith_010(data)
      [] i = 10 -> _check_arith_011(data)
      [] i = 11 -> _check_fc_001_004(data)
      [] i = 12 -> _check_fc_010(data)
      [] i = 13 -> _check_fc_021(data)
      [] i = 14 -> _check_fc_031(data)
      [] i = 15 -> _check_fc_032(data)
      [] i = 16 -> _check_fc_040(data)
      [] i = 17 -> _check_cap_001(data)

\* validate_k1(data): every check function is called, the report is built
\* from the whole list
validate_k1(data) ==
    K1ValidationReport(Flatten([i \in 1..NumCheckCalls |-> CheckCall(i, data)]))

\* 2.4 Complete rule catalog: the rule ids, in the order validate_k1 runs them
RuleCatalog ==
    << "ARITH-001", "ARITH-002",
       "ARITH-003-ordinary_dividends", "ARITH-003-qualified_dividends",
       "ARITH-003-guaranteed_payments", "ARITH-003-section_179_deduction",
       "ARITH-003-foreign_taxes_paid", "ARITH-003-distributions",
       "ARITH-005", "ARITH-006", "ARITH-007", "ARITH-008", "ARITH-009",
       "ARITH-010", "ARITH-011",
       "FC-001", "FC-003", "FC-004", "FC-010",
       "FC-021-guaranteed_payments", "FC-021-interest_income",
       "FC-021-ordinary_dividends", "FC-021-qualified_dividends",
       "FC-021-section_179_deduction", "FC-021-foreign_taxes_paid",
       "FC-021-distributions",
       "FC-031", "FC-032",
       "FC-040-ordinary_business_income", "FC-040-rental_real_estate_income",
       "FC-040-guaranteed_payments", "FC-040-interest_income",
       "FC-040-ordinary_dividends", "FC-040-qualified_dividends",
       "FC-040-short_term_capital_gains", "FC-040-long_term_capital_gains",
       "FC-040-section_179_deduction", "FC-040-self_employment_earnings",
       "FC-040-foreign_taxes_paid", "FC-040-distributions",
       "FC-040-qbi_deduction", "FC-040-capital_account_beginning",
       "FC-040-capital_account_ending",
       "CAP-001" >>

-----------------------------------------------------------------------------
(* 4.1 Combined validation result *)

\* the coherence score below which the combiner reports warnings (0.5)
CoherenceThreshold == 50

\* a combiner that lets a good coherence score outweigh the rule checks
compute_overall_status_score_first(deterministic_report, ai_report) ==
    IF NotNone(ai_report) /\ Val(ai_report).overall_coherence_score >= CoherenceThreshold
    THEN "passed"
    ELSE IF ~deterministic_report.passed THEN "failed"
    ELSE IF deterministic_report.warning_count > 0 THEN "warnings"
    ELSE "passed"

\* a combiner that overlooks the warning count
compute_overall_status_no_warnings(deterministic_report, ai_report) ==
    IF ~deterministic_report.passed THEN "failed"
    ELSE IF /\ NotNone(ai_report)
            /\ Val(ai_report).overall_coherence_score < CoherenceThreshold
         THEN "warnings"
    ELSE "passed"

\* a combiner that takes a missing AI report for a bad one
compute_overall_status_absent_is_bad(deterministic_report, ai_report) ==
    IF ~deterministic_report.passed THEN "failed"
    ELSE IF deterministic_report.warning_count > 0 THEN "warnings"
    ELSE IF \/ IsNone(ai_report)
            \/ Val(ai_report).overall_coherence_score < CoherenceThreshold
         THEN "warnings"
    ELSE "passed"

\* K1CombinedValidation.compute_overall_status
compute_overall_status(deterministic_report, ai_report) ==
    IF ~deterministic_report.passed THEN "failed"
    ELSE IF deterministic_report.warning_count > 0 THEN "warnings"
    ELSE IF /\ NotNone(ai_report)
            /\ Val(ai_report).overall_coherence_score < CoherenceThreshold
         THEN "warnings"
    ELSE "passed"

\* K1CombinedValidation(k1_data=..., deterministic_report=..., ai_report=...)
K1CombinedValidation(k1_data, deterministic_report, ai_report) ==
    [k1_data              |-> k1_data,
     deterministic_report |-> deterministic_report,
     ai_report            |-> ai_report,
     overall_status       |-> compute_overall_status(deterministic_report, ai_report)]

\* K1AIValidationResult, of which the combiner reads the coherence score
K1AIValidationResult(score) == [overall_coherence_score |-> score]

-----------------------------------------------------------------------------
(* 4.2 - 4.4 Cross-partner validation *)

\* no check of validate_partnership or validate_year_over_year passes
\* partners_involved, so it keeps its default, the empty list
CrossPartnerCheck(id, sev, ok, msg, name, year) ==
    [rule_id |-> id, severity |-> sev, passed |-> ok, message |-> msg,
     partnership_name |-> name, tax_year |-> year, partners_involved |-> <<>>]

PartnershipValidationResult(name, year, count, cs) ==
    [partnership_name |-> name, tax_year |-> year, partner_count |-> count]
    @@ compute_counts(cs)

A3IncomeFields ==
    <<"ordinary_business_income", "rental_real_estate_income",
      "interest_income", "ordinary_dividends",
      "short_term_capital_gains", "long_term_capital_gains">>

\* a deviation taken relative to the expected share alone, without the floor
\* of 0.001 under it
DeviatesFromProRataUnfloored(value, pct, total_field, total_pct) ==
    Abs(value * total_pct - pct * total_field) * 10 > Abs(total_field) * pct

\* deviation = abs(actual_share - expected_share) / max(expected_share, 0.001)
\* with expected_share = pct / total_pct, actual_share = value / total_field;
\* deviation > 0.10, cleared of its divisions
DeviatesFromProRata(value, pct, total_field, total_pct) ==
    LET n == Abs(value * total_pct - pct * total_field)
    IN  IF pct * 1000 >= total_pct
        THEN n * 10 > Abs(total_field) * pct
        ELSE n * 10000 > Abs(total_field) * total_pct

\* A3 for one income field: one warning per deviating allocation; of the
\* message the fixed text is kept and the formatted deviation figure is not
A3Checks(k1s, field_name, name, year) ==
    LET values == SelectSeq(k1s, LAMBDA k1 :
                      /\ NotNone(k1[field_name])
                      /\ NotNone(k1.partner_share_percentage)
                      /\ Val(k1.partner_share_percentage) > 0)
        total_field == SumSeq([i \in 1..Len(values) |-> Val(values[i][field_name])])
        total_pct   == SumSeq([i \in 1..Len(values) |->
                                  Val(values[i].partner_share_percentage)])
        deviating   == SelectSeq(values, LAMBDA k1 :
                          DeviatesFromProRata(Val(k1[field_name]),
                              Val(k1.partner_share_percentage), total_field, total_pct))
    IN  IF Len(values) >= 2 /\ total_field # 0 /\ total_pct > 0
        THEN [i \in 1..Len(deviating) |->
                 CrossPartnerCheck("CROSS_A3_" \o field_name, WARNING, FALSE,
                     <<"Partner allocation deviates from pro-rata share">>,
                     name, year)]
        ELSE <<>>

\* an A1 that takes the sum against 100% without the 0.01 allowance
A1CheckNoAllowance(total_pct, partnership_name, tax_year) ==
    <<CrossPartnerCheck("CROSS_A1", CRITICAL, total_pct <= 10000,
          IF total_pct <= 10000 THEN <<>>
          ELSE <<"Partner percentages exceed 100%", total_pct>>,
          partnership_name, tax_year)>>

\* A1: profit percentages must not exceed 100%;
\* passed = total_pct <= 100.0 + 0.01
A1Check(total_pct, partnership_name, tax_year) ==
    <<CrossPartnerCheck("CROSS_A1", CRITICAL, total_pct <= 10001,
          IF total_pct <= 10001 THEN <<>>
          ELSE <<"Partner percentages exceed 100%", total_pct>>,
          partnership_name, tax_year)>>

\* an A2 that reports the incomplete sum as a warning
A2CheckAsWarning(total_pct, partnership_name, tax_year) ==
    IF total_pct < 9999
    THEN <<CrossPartnerCheck("CROSS_A2", WARNING, FALSE,
              <<"Partner percentages incomplete", total_pct, 10000 - total_pct>>,
              partnership_name, tax_year)>>
    ELSE <<>>

\* A2: percentages sum below 100% (informational); total_pct < 99.99
A2Check(total_pct, partnership_name, tax_year) ==
    IF total_pct < 9999
    THEN <<CrossPartnerCheck("CROSS_A2", ADVISORY, FALSE,
              <<"Partner percentages incomplete", total_pct, 10000 - total_pct>>,
              partnership_name, tax_year)>>
    ELSE <<>>

\* the hash seeds a Python process may start with: string hashes are salted
\* per process, and a set of strings is iterated in the order of its hashes
HashSeeds == {"seed-a", "seed-b"}

\* the order in which a process with the given seed iterates the partnership
\* names
IterationOrder(hashseed) ==
    IF hashseed = "seed-a"
    THEN <<"Sunbelt Fund II", "Sunbelt Fund 2", "SUNBELT FUND II LP">>
    ELSE <<"SUNBELT FUND II LP", "Sunbelt Fund 2", "Sunbelt Fund II">>

\* f"{names}" for a set of partnership names
SetRepr(names, hashseed) ==
    SelectSeq(IterationOrder(hashseed), LAMBDA n : n \in names)

\* validate_partnership(k1s, partnership_name, tax_year), run by a process
\* with the given hash seed
validate_partnership(k1s, partnership_name, tax_year, hashseed) ==
    LET with_pct    == SelectSeq(k1s, LAMBDA k1 : NotNone(k1.partner_share_percentage))
        total_pct   == SumSeq([i \in 1..Len(with_pct) |->
                                  Val(with_pct[i].partner_share_percentage)])
        a1 == IF Len(with_pct) > 0
              THEN A1Check(total_pct, partnership_name, tax_year)
              ELSE <<>>
        a2 == IF Len(with_pct) > 0
              THEN A2Check(total_pct, partnership_name, tax_year)
              ELSE <<>>
        a3 == IF Len(k1s) >= 2
              THEN Flatten([i \in 1..Len(A3IncomeFields) |->
                       A3Checks(k1s, A3IncomeFields[i], partnership_name, tax_year)])
              ELSE <<>>
        names == {Val(k1s[i].partnership_name) :
                     i \in {j \in 1..Len(k1s) : Truthy(k1s[j].partnership_name)}}
        a5 == IF Cardinality(names) > 1
              THEN <<CrossPartnerCheck("CROSS_A5", WARNING, FALSE,
                        <<"Inconsistent partnership names",
                          SetRepr(names, hashseed)>>,
                        partnership_name, tax_year)>>
              ELSE <<>>
    IN  PartnershipValidationResult(partnership_name, tax_year, Len(k1s),
            a1 \o a2 \o a3 \o a5)

\* a validate_year_over_year whose continuity check lets balances a dollar
\* apart pass
validate_year_over_year_tolerant(current, prior) ==
    LET years == <<prior.tax_year, current.tax_year>>
        b1 == IF /\ NotNone(prior.capital_account_ending)
                 /\ NotNone(current.capital_account_beginning)
              THEN IF Abs(Val(prior.capital_account_ending)
                          - Val(current.capital_account_beginning)) > 1
                   THEN <<CrossPartnerCheck("CROSS_B1", CRITICAL, FALSE,
                             <<"Prior year ending != current year beginning",
                               Val(prior.capital_account_ending),
                               Val(current.capital_account_beginning),
                               Abs(Val(prior.capital_account_ending)
                                   - Val(current.capital_account_beginning))>>,
                             "", years)>>
                   ELSE <<CrossPartnerCheck("CROSS_B1", CRITICAL, TRUE, <<>>,
                             "", years)>>
              ELSE <<>>
        b4 == IF /\ NotNone(prior.partner_type)
                 /\ NotNone(current.partner_type)
                 /\ Lower(Val(prior.partner_type)) # Lower(Val(current.partner_type))
              THEN <<CrossPartnerCheck("CROSS_B4", WARNING, FALSE,
                        <<"Partner type changed", Val(prior.partner_type),
                          Val(current.partner_type)>>, "", years)>>
              ELSE <<>>
    IN  b1 \o b4

\* validate_year_over_year(current, prior)
validate_year_over_year(current, prior) ==
    LET years == <<prior.tax_year, current.tax_year>>
        b1 == IF /\ NotNone(prior.capital_account_ending)
                 /\ NotNone(current.capital_account_beginning)
              THEN IF Val(prior.capital_account_ending)
                          # Val(current.capital_account_beginning)
                   THEN <<CrossPartnerCheck("CROSS_B1", CRITICAL, FALSE,
                             <<"Prior year ending != current year beginning",
                               Val(prior.capital_account_ending),
                               Val(current.capital_account_beginning),
                               Abs(Val(prior.capital_account_ending)
                                   - Val(current.capital_account_beginning))>>,
                             "", years)>>
                   ELSE <<CrossPartnerCheck("CROSS_B1", CRITICAL, TRUE, <<>>,
                             "", years)>>
              ELSE <<>>
        b4 == IF /\ NotNone(prior.partner_type)
                 /\ NotNone(current.partner_type)
                 /\ Lower(Val(prior.partner_type)) # Lower(Val(current.partner_type))
              THEN <<CrossPartnerCheck("CROSS_B4", WARNING, FALSE,
                        <<"Partner type changed", Val(prior.partner_type),
                          Val(current.partner_type)>>, "", years)>>
              ELSE <<>>
    IN  b1 \o b4

-----------------------------------------------------------------------------
(* The accumulated store and the cross-partner asset *)

\* a row of k1_records.parquet: the run that wrote it, EIN, TIN, the amounts
Row(r, d) == [run |-> r, ein |-> d.ein, tin |-> d.tin, data |-> d.data]

\* (partnership_ein, partner_ssn, tax_year)
CompositeKey(row) == <<row.ein, row.tin, row.data.tax_year>>

\* (partnership_ein, tax_year)
GroupKey(row) == <<row.ein, row.data.tax_year>>

\* the modify step of k1_parquet_upsert: the run's record joins the rows read
UpsertRows(rows, row) == Append(rows, row)

\* int(tax_year) for the years of the model
YearNumber(y) ==
    CASE y = <<"2023">> -> 2023
      [] y = <<"2024">> -> 2024
      [] OTHER          -> 0

\* the rows of one (partnership_ein, tax_year) group, in store order
GroupRows(rows, key) == SelectSeq(rows, LAMBDA row : GroupKey(row) = key)

\* the dollar amount fields of a K-1
DollarAmountFields ==
    {"ordinary_business_income", "rental_real_estate_income",
     "guaranteed_payments", "interest_income", "ordinary_dividends",
     "qualified_dividends", "short_term_capital_gains",
     "long_term_capital_gains", "section_179_deduction",
     "self_employment_earnings", "foreign_taxes_paid", "distributions",
     "qbi_deduction", "capital_account_beginning", "capital_account_ending"}

\* an all_amounts_match that takes an absent amount for zero
all_amounts_match_absent_as_zero(existing, new_k1) ==
    \A f \in DollarAmountFields :
        (IF IsNone(existing[f]) THEN 0 ELSE Val(existing[f]))
            = (IF IsNone(new_k1[f]) THEN 0 ELSE Val(new_k1[f]))

\* all_amounts_match(existing, new_k1)
all_amounts_match(existing, new_k1) ==
    \A f \in DollarAmountFields : existing[f] = new_k1[f]

\* identify_differences(existing, new_k1)
identify_differences(existing, new_k1) ==
    {f \in DollarAmountFields : existing[f] # new_k1[f]}

DuplicateCheckResult(exact, amendment, run_id, fields, msg) ==
    [is_exact_duplicate |-> exact, is_possible_amendment |-> amendment,
     existing_run_id |-> run_id, differing_fields |-> fields, message |-> msg]

\* C1 and C2 for a new row and the existing row of the same composite key:
\* the rule that fires, its severity and its result
DetectDuplicate(existing, new_row) ==
    IF all_amounts_match(existing.data, new_row.data)
    THEN [rule_id  |-> "CROSS_C1_EXACT_DUPLICATE",
          severity |-> CRITICAL,
          result   |-> DuplicateCheckResult(TRUE, FALSE, Some(existing.run), {},
                           "Exact duplicate K-1 detected")]
    ELSE [rule_id  |-> "CROSS_C2_AMENDED_K1",
          severity |-> WARNING,
          result   |-> DuplicateCheckResult(FALSE, TRUE, Some(existing.run),
                           identify_differences(existing.data, new_row.data),
                           "Possible amended K-1 detected")]

\* D3 works on amounts per percentage point, field_value /
\* partner_share_percentage; the model keeps them exact by scaling every one
\* by four times the least common multiple of the percentages, which leaves
\* the comparison with the median and the MAD unchanged
RECURSIVE GCD(_, _)
GCD(a, b) == IF b = 0 THEN a ELSE GCD(b, a % b)

RECURSIVE LCMSeq(_)
LCMSeq(s) ==
    IF s = <<>> THEN 1
    ELSE LET m == LCMSeq(Tail(s)) IN (Head(s) \div GCD(Head(s), m)) * m

\* a sequence of integers in ascending order
RECURSIVE Insert(_, _)
Insert(x, s) ==
    IF s = <<>> THEN <<x>>
    ELSE IF x <= Head(s) THEN <<x>> \o s
    ELSE <<Head(s)>> \o Insert(x, Tail(s))

RECURSIVE Sorted(_)
Sorted(s) == IF s = <<>> THEN <<>> ELSE Insert(Head(s), Sorted(Tail(s)))

\* MEDIAN: the middle value, or the mean of the two middle values
MEDIAN(s) ==
    LET t == Sorted(s)
        n == Len(t)
    IN  IF n % 2 = 1 THEN t[(n + 1) \div 2]
        ELSE (t[n \div 2] + t[n \div 2 + 1]) \div 2

\* MAD = Median Absolute Deviation
MAD(s) == LET m == MEDIAN(s) IN MEDIAN([i \in DOMAIN s |-> Abs(s[i] - m)])

\* an outlier test that also takes a value exactly 3 x MAD away
IsOutlierInclusive(normalized_value, median, mad) ==
    Abs(normalized_value - median) >= 3 * mad

\* ABS(normalized_value - median) > 3 * MAD(normalized)
IsOutlier(normalized_value, median, mad) ==
    Abs(normalized_value - median) > 3 * mad

\* D3 for one dollar amount field of a group: one warning per outlier
D3Checks(k1s, field_name, name, year) ==
    LET values == SelectSeq(k1s, LAMBDA k1 :
                      /\ NotNone(k1[field_name])
                      /\ NotNone(k1.partner_share_percentage)
                      /\ Val(k1.partner_share_percentage) > 0)
        lcm == LCMSeq([i \in DOMAIN values |->
                          Val(values[i].partner_share_percentage)])
        normalized == [i \in DOMAIN values |->
                          4 * Val(values[i][field_name])
                            * (lcm \div Val(values[i].partner_share_percentage))]
        median == MEDIAN(normalized)
        mad    == MAD(normalized)
        outliers == SelectSeq(normalized, LAMBDA v : IsOutlier(v, median, mad))
    IN  IF Len(k1s) >= 3 /\ Len(normalized) >= 3
        THEN [i \in DOMAIN outliers |->
                 CrossPartnerCheck("CROSS_D3_OUTLIER_DETECTION", WARNING, FALSE,
                     <<"allocation per percentage point is a statistical outlier vs peers",
                       field_name>>, name, year)]
        ELSE <<>>

\* the dollar amount fields in the order of the K-1
DollarAmountFieldSeq ==
    <<"ordinary_business_income", "rental_real_estate_income",
      "guaranteed_payments", "interest_income", "ordinary_dividends",
      "qualified_dividends", "short_term_capital_gains",
      "long_term_capital_gains", "section_179_deduction",
      "self_employment_earnings", "foreign_taxes_paid", "distributions",
      "qbi_deduction", "capital_account_beginning", "capital_account_ending">>

\* D3 over every dollar amount field of a group
D3OutlierDetection(k1s, name, year) ==
    Flatten([i \in DOMAIN DollarAmountFieldSeq |->
                D3Checks(k1s, DollarAmountFieldSeq[i], name, year)])

RowData(rows) == [i \in DOMAIN rows |-> rows[i].data]

\* validate_partnership over every (EIN, tax year) group and
\* validate_year_over_year over every consecutive-year pair of the rows loaded
CrossPartnerResults(rows, hashseed) ==
    [groups |->
        {[key    |-> key,
          result |-> LET g == GroupRows(rows, key)
                     IN  validate_partnership(RowData(g),
                             IF IsNone(g[1].data.partnership_name) THEN ""
                             ELSE Val(g[1].data.partnership_name),
                             IF IsNone(g[1].data.tax_year) THEN ""
                             ELSE Val(g[1].data.tax_year),
                             hashseed)]
         : key \in {GroupKey(rows[i]) : i \in DOMAIN rows}},
     outliers |->
        {[key    |-> key,
          checks |-> LET g == GroupRows(rows, key)
                     IN  D3OutlierDetection(RowData(g),
                             IF IsNone(g[1].data.partnership_name) THEN ""
                             ELSE Val(g[1].data.partnership_name),
                             IF IsNone(g[1].data.tax_year) THEN ""
                             ELSE Val(g[1].data.tax_year))]
         : key \in {GroupKey(rows[i]) : i \in DOMAIN rows}},
     duplicates |->
        {[existing |-> rows[i].run,
          new      |-> rows[j].run,
          check    |-> DetectDuplicate(rows[i], rows[j])]
         : <<i, j>> \in {p \in (DOMAIN rows) \X (DOMAIN rows) :
               /\ p[1] < p[2]
               /\ CompositeKey(rows[p[1]]) = CompositeKey(rows[p[2]])}},
     pairs |->
        {[prior   |-> rows[i].run,
          current |-> rows[j].run,
          checks  |-> validate_year_over_year(rows[j].data, rows[i].data)]
         : <<i, j>> \in {p \in (DOMAIN rows) \X (DOMAIN rows) :
               /\ rows[p[1]].ein = rows[p[2]].ein
               /\ rows[p[1]].tin = rows[p[2]].tin
               /\ YearNumber(rows[p[1]].data.tax_year) # 0
               /\ YearNumber(rows[p[2]].data.tax_year)
                      = YearNumber(rows[p[1]].data.tax_year) + 1}}]

-----------------------------------------------------------------------------
(* Documents.  K1ExtractedData has 19 fields, every one Optional.          *)

\* a K-1 on which only the required fields and the share were extracted
BaseK1 ==
    [tax_year                  |-> Some("2024"),
     partnership_name          |-> Some("Sunbelt Fund II"),
     partner_type              |-> Some("Limited Partner"),
     partner_share_percentage  |-> Some(2500),
     ordinary_business_income  |-> None,
     rental_real_estate_income |-> None,
     guaranteed_payments       |-> None,
     interest_income           |-> None,
     ordinary_dividends        |-> None,
     qualified_dividends       |-> None,
     short_term_capital_gains  |-> None,
     long_term_capital_gains   |-> None,
     section_179_deduction     |-> None,
     self_employment_earnings  |-> None,
     foreign_taxes_paid        |-> None,
     distributions             |-> None,
     qbi_deduction             |-> None,
     capital_account_beginning |-> None,
     capital_account_ending    |-> None]

Opt(S) == {None} \cup {Some(v) : v \in S}

\* the extracted data the evaluator is run on: each family varies the
\* fields one group of rules reads
DividendK1s ==
    {[BaseK1 EXCEPT !.qualified_dividends = q, !.ordinary_dividends = o,
                    !.interest_income = i] :
        q \in Opt({0, 500, 2000}), o \in Opt({1000, 500, -5}), i \in Opt({-40, 75})}

RequiredFieldK1s ==
    {[BaseK1 EXCEPT !.tax_year = y, !.partnership_name = n, !.partner_type = t] :
        y \in Opt({"", "24", "2024"}),
        n \in Opt({"", "  ", "Sunbelt Fund II"}),
        t \in Opt({"partner", "LLC Member", " limited partner ", ""})}

ShareK1s ==
    {[BaseK1 EXCEPT !.partner_share_percentage = p, !.rental_real_estate_income = x] :
        p \in Opt({-100, 0, 1, 9999, 10000, 10001, 10002}),
        x \in Opt({-42315, 30000000})}

SelfEmploymentK1s ==
    {[BaseK1 EXCEPT !.partner_type = Some(t), !.self_employment_earnings = se,
                    !.ordinary_business_income = obi, !.guaranteed_payments = gp] :
        t \in {"General Partner", "Limited Partner", "corporation"},
        se \in Opt({0, 50000, 200000}),
        obi \in Opt({100000, -20000}),
        gp \in Opt({0, 60000, 6000000})}

CapitalK1s ==
    {[BaseK1 EXCEPT !.capital_account_beginning = b, !.capital_account_ending = e,
                    !.ordinary_business_income = obi, !.distributions = d,
                    !.guaranteed_payments = gp] :
        b \in Opt({258185, 5000}),
        e \in Opt({258185, 318500, 1900000, 8000}),
        obi \in Opt({60315}),
        d \in Opt({0, 20000, -1}),
        gp \in Opt({1600000})}

DeductionK1s ==
    {[BaseK1 EXCEPT !.section_179_deduction = s, !.tax_year = y,
                    !.foreign_taxes_paid = f, !.ordinary_business_income = obi] :
        s \in Opt({0, 1200000, 1230000, 1600000}),
        y \in Opt({"2023", "2024", "2026"}),
        f \in Opt({500, 2000000}),
        obi \in Opt({100000})}

QbiK1s ==
    {[BaseK1 EXCEPT !.qbi_deduction = q, !.ordinary_business_income = Some(100000),
                    !.guaranteed_payments = gp, !.short_term_capital_gains = g] :
        q \in Opt({95000, 10000}), gp \in Opt({5000}), g \in Opt({-3000})}

EvalK1s ==
    DividendK1s \cup RequiredFieldK1s \cup ShareK1s \cup SelfEmploymentK1s
    \cup CapitalK1s \cup DeductionK1s \cup QbiK1s

\* a document: the partnership EIN and partner TIN of the PII mapping, and
\* the extracted data
Document(ein, tin, data) == [ein |-> ein, tin |-> tin, data |-> data]

EvalDocs == {Document("46-3819204", "621-47-8830", k) : k \in EvalK1s}

\* the documents of the concurrent pipeline: two partners of one partnership
\* holding 60% each, and an amended K-1 of the first whose qualified
\* dividends lack the ordinary dividends
PartnerA == [BaseK1 EXCEPT !.partner_share_percentage = Some(6000),
                           !.rental_real_estate_income = Some(-42315)]

PartnerB == [BaseK1 EXCEPT !.partner_share_percentage = Some(6000),
                           !.rental_real_estate_income = Some(-42315),
                           !.partner_type = Some("General Partner")]

PartnerAAmended == [BaseK1 EXCEPT !.partner_share_percentage = Some(3000),
                                  !.rental_real_estate_income = Some(-38200),
                                  !.qualified_dividends = Some(500)]

PipelineDocs ==
    {Document("46-3819204", "621-47-8830", PartnerA),
     Document("46-3819204", "538-12-9907", PartnerB),
     Document("46-3819204", "621-47-8830", PartnerAAmended)}

\* the coherence scores the AI validation may return, in hundredths
EvalScores == {30, 50, 90}

PipelineScores == {90}

-----------------------------------------------------------------------------
(* The per-run pipeline.  Every dropped PDF gets its own run and staging   *)
(* prefix; the runs execute in parallel.                                    *)

\* the number of runs the launcher executes in parallel
MaxRuns == 2

Runs == 1..MaxRuns

NoDoc == Document("", "", BaseK1)

Init ==
    /\ pc = [r \in Runs |-> "pending"]
    /\ doc = [r \in Runs |-> NoDoc]
    /\ step = [r \in Runs |-> 0]
    /\ checks = [r \in Runs |-> <<>>]
    /\ det = [r \in Runs |-> None]
    /\ ai = [r \in Runs |-> None]
    /\ combined = [r \in Runs |-> None]
    /\ parquet = <<>>
    /\ lock = 0
    /\ buf = [r \in Runs |-> <<>>]
    /\ versions = << <<>> >>
    /\ snapshot = <<>>
    /\ cross = CrossPartnerResults(<<>>, "seed-a")
    /\ bucket = NoBucket
    /\ response = <<>>
    /\ view = <<>>

\* ai_structured_extraction: the document's K1ExtractedData is staged
ai_structured_extraction(r, docs) ==
    /\ pc[r] = "pending"
    /\ \E d \in docs : doc' = [doc EXCEPT ![r] = d]
    /\ pc' = [pc EXCEPT ![r] = "extracted"]
    /\ UNCHANGED <<frontend, step, checks, det, ai, combined, parquet, lock, buf,
                   versions, snapshot, cross>>

\* a k1_deterministic_validation whose validate_k1 keeps its list of checks
\* between calls: a later evaluation reports the earlier checks as well
k1_deterministic_validation_shared_list(r) ==
    /\ pc[r] = "extracted"
    /\ LET earlier == {q \in Runs \ {r} : NotNone(det[q])}
           kept    == IF earlier = {} THEN <<>>
                      ELSE Val(det[CHOOSE q \in earlier : TRUE]).checks
       IN  det' = [det EXCEPT ![r] =
                      Some(K1ValidationReport(kept \o validate_k1(doc[r].data).checks))]
    /\ pc' = [pc EXCEPT ![r] = "det_done"]
    /\ UNCHANGED <<frontend, doc, step, checks, ai, combined, parquet, lock, buf,
                   versions, snapshot, cross>>

\* k1_deterministic_validation: validate_k1 on the staged data, then one
\* write of the whole report to staging
k1_deterministic_validation(r) ==
    /\ pc[r] = "extracted"
    /\ det' = [det EXCEPT ![r] = Some(validate_k1(doc[r].data))]
    /\ pc' = [pc EXCEPT ![r] = "det_done"]
    /\ UNCHANGED <<frontend, doc, step, checks, ai, combined, parquet, lock, buf,
                   versions, snapshot, cross>>

\* the same asset, one check function at a time: validate_k1 is entered
\* with an empty local list
ValidateCall(r) ==
    /\ pc[r] = "extracted"
    /\ pc' = [pc EXCEPT ![r] = "validating"]
    /\ step' = [step EXCEPT ![r] = 0]
    /\ checks' = [checks EXCEPT ![r] = <<>>]
    /\ UNCHANGED <<frontend, doc, det, ai, combined, parquet, lock, buf, versions,
                   snapshot, cross>>

\* a validate_k1 that stages the report built so far after every check
ValidateStepStreaming(r) ==
    /\ pc[r] = "validating"
    /\ step[r] < NumCheckCalls
    /\ step' = [step EXCEPT ![r] = step[r] + 1]
    /\ checks' = [checks EXCEPT ![r] = checks[r] \o CheckCall(step[r] + 1, doc[r].data)]
    /\ det' = [det EXCEPT ![r] = Some(K1ValidationReport(checks'[r]))]
    /\ UNCHANGED <<frontend, pc, doc, ai, combined, parquet, lock, buf, versions,
                   snapshot, cross>>

\* checks.append(...) / checks.extend(...): the next check function runs
ValidateStep(r) ==
    /\ pc[r] = "validating"
    /\ step[r] < NumCheckCalls
    /\ step' = [step EXCEPT ![r] = step[r] + 1]
    /\ checks' = [checks EXCEPT ![r] = checks[r] \o CheckCall(step[r] + 1, doc[r].data)]
    /\ UNCHANGED <<frontend, pc, doc, det, ai, combined, parquet, lock, buf, versions,
                   snapshot, cross>>

\* return K1ValidationReport(checks=checks), and the asset's write_json
ValidateReturn(r) ==
    /\ pc[r] = "validating"
    /\ step[r] = NumCheckCalls
    /\ det' = [det EXCEPT ![r] = Some(K1ValidationReport(checks[r]))]
    /\ pc' = [pc EXCEPT ![r] = "det_done"]
    /\ UNCHANGED <<frontend, doc, step, checks, ai, combined, parquet, lock, buf,
                   versions, snapshot, cross>>

\* the caller gives the run up before its combined result exists
Abort(r) ==
    /\ pc[r] \in {"validating", "det_done", "ai_done"}
    /\ pc' = [pc EXCEPT ![r] = "aborted"]
    /\ UNCHANGED <<frontend, doc, step, checks, det, ai, combined, parquet, lock, buf,
                   versions, snapshot, cross>>

\* k1_ai_validation: the model answers with a coherence score, or the step
\* does not run and no AI report is staged
k1_ai_validation(r, scores) ==
    /\ pc[r] = "det_done"
    /\ \/ \E s \in scores : ai' = [ai EXCEPT ![r] = Some(K1AIValidationResult(s))]
       \/ ai' = [ai EXCEPT ![r] = None]
    /\ pc' = [pc EXCEPT ![r] = "ai_done"]
    /\ UNCHANGED <<frontend, doc, step, checks, det, combined, parquet, lock, buf,
                   versions, snapshot, cross>>

\* a combined validation that does not wait for the AI track
k1_combined_validation_early(r) ==
    /\ pc[r] \in {"det_done", "ai_done"}
    /\ combined' = [combined EXCEPT ![r] =
                       Some(K1CombinedValidation(doc[r].data, Val(det[r]), ai[r]))]
    /\ pc' = [pc EXCEPT ![r] = IF pc[r] = "ai_done" THEN "combined" ELSE pc[r]]
    /\ UNCHANGED <<frontend, doc, step, checks, det, ai, parquet, lock, buf, versions,
                   snapshot, cross>>

\* k1_combined_validation: built from the two staged track results
k1_combined_validation(r) ==
    /\ pc[r] = "ai_done"
    /\ combined' = [combined EXCEPT ![r] =
                       Some(K1CombinedValidation(doc[r].data, Val(det[r]), ai[r]))]
    /\ pc' = [pc EXCEPT ![r] = "combined"]
    /\ UNCHANGED <<frontend, doc, step, checks, det, ai, parquet, lock, buf, versions,
                   snapshot, cross>>

\* final_report: the run's output files are written
final_report(r) ==
    /\ pc[r] = "combined"
    /\ pc' = [pc EXCEPT ![r] = "reported"]
    /\ UNCHANGED <<frontend, doc, step, checks, det, ai, combined, parquet, lock, buf,
                   versions, snapshot, cross>>

\* k1_parquet_upsert takes a file lock without looking whether it is held
UpsertAcquireUnguarded(r) ==
    /\ pc[r] = "reported"
    /\ lock' = r
    /\ pc' = [pc EXCEPT ![r] = "locked"]
    /\ UNCHANGED <<frontend, doc, step, checks, det, ai, combined, parquet, buf,
                   versions, snapshot, cross>>

\* k1_parquet_upsert takes the file lock that serializes its
\* read-modify-write across the run launcher's processes
UpsertAcquire(r) ==
    /\ pc[r] = "reported"
    /\ lock = 0
    /\ lock' = r
    /\ pc' = [pc EXCEPT ![r] = "locked"]
    /\ UNCHANGED <<frontend, doc, step, checks, det, ai, combined, parquet, buf,
                   versions, snapshot, cross>>

\* read: the Parquet object is downloaded; modify: the run's row is added
UpsertReadModify(r) ==
    /\ pc[r] = "locked"
    /\ buf' = [buf EXCEPT ![r] = UpsertRows(parquet, Row(r, doc[r]))]
    /\ pc' = [pc EXCEPT ![r] = "modified"]
    /\ UNCHANGED <<frontend, doc, step, checks, det, ai, combined, parquet, lock,
                   versions, snapshot, cross>>

\* write: one put replaces the whole Parquet object
UpsertWrite(r) ==
    /\ pc[r] = "modified"
    /\ parquet' = buf[r]
    /\ versions' = Append(versions, buf[r])
    /\ pc' = [pc EXCEPT ![r] = "written"]
    /\ UNCHANGED <<frontend, doc, step, checks, det, ai, combined, lock, buf, snapshot,
                   cross>>

\* the file lock is released and the run ends
UpsertRelease(r) ==
    /\ pc[r] = "written"
    /\ lock' = IF lock = r THEN 0 ELSE lock
    /\ pc' = [pc EXCEPT ![r] = "done"]
    /\ UNCHANGED <<frontend, doc, step, checks, det, ai, combined, parquet, buf,
                   versions, snapshot, cross>>

\* a cross_partner_validation that may load what a run in flight has built
\* and not yet written
cross_partner_validation_dirty ==
    /\ \E r \in Runs : pc[r] = "done"
    /\ \E rows \in {parquet} \cup {buf[q] : q \in {x \in Runs : pc[x] = "modified"}} :
           /\ snapshot' = rows
           /\ \E hashseed \in HashSeeds : cross' = CrossPartnerResults(rows, hashseed)
    /\ UNCHANGED <<frontend, pc, doc, step, checks, det, ai, combined, parquet, lock,
                   buf, versions>>

\* cross_partner_validation, triggered by the sensor after a run: it loads
\* the Parquet object, taking no lock, and runs its rules on what it loaded
cross_partner_validation ==
    /\ \E r \in Runs : pc[r] = "done"
    /\ snapshot' = parquet
    /\ \E hashseed \in HashSeeds : cross' = CrossPartnerResults(parquet, hashseed)
    /\ UNCHANGED <<frontend, pc, doc, step, checks, det, ai, combined, parquet, lock,
                   buf, versions>>

\* the concurrent pipeline
Next ==
    \/ \E r \in Runs : ai_structured_extraction(r, PipelineDocs)
    \/ \E r \in Runs : k1_deterministic_validation(r)
    \/ \E r \in Runs : k1_ai_validation(r, PipelineScores)
    \/ \E r \in Runs : k1_combined_validation(r)
    \/ \E r \in Runs : final_report(r)
    \/ \E r \in Runs : UpsertAcquire(r)
    \/ \E r \in Runs : UpsertReadModify(r)
    \/ \E r \in Runs : UpsertWrite(r)
    \/ \E r \in Runs : UpsertRelease(r)
    \/ cross_partner_validation

Spec == Init /\ [][Next]_vars

\* one run, validate_k1 taken one check function at a time, over the
\* evaluator's documents
NextEval ==
    \/ ai_structured_extraction(1, EvalDocs)
    \/ ValidateCall(1)
    \/ ValidateStep(1)
    \/ ValidateReturn(1)
    \/ Abort(1)
    \/ k1_ai_validation(1, EvalScores)
    \/ k1_combined_validation(1)
    \/ final_report(1)
    \/ UpsertAcquire(1)
    \/ UpsertReadModify(1)
    \/ UpsertWrite(1)
    \/ UpsertRelease(1)
    \/ cross_partner_validation

SpecEval == Init /\ [][NextEval]_vars

-----------------------------------------------------------------------------
(* The cross-partner asset over a store that earlier runs have filled.      *)

\* the store after the documents of a sequence were processed one run after
\* the other
StoreOf(docs) == [i \in 1..Len(docs) |-> Row(i, docs[i])]

\* one partner's K-1s of two consecutive years: the prior year's ending and
\* the current year's beginning capital balance
ContinuityK1s ==
    {<<[BaseK1 EXCEPT !.tax_year = Some("2023"), !.capital_account_ending = e],
       [BaseK1 EXCEPT !.tax_year = Some("2024"), !.capital_account_beginning = b,
                      !.partner_type = Some(t)]>> :
        e \in Opt({258185}),
        b \in Opt({258184, 258185, 258186, 318500}),
        t \in {"Limited Partner", "General Partner"}}

\* the partners of one partnership, by position in a group
PartnerTins == <<"621-47-8830", "538-12-9907", "704-55-1162", "315-66-2048">>

\* the K-1s of a sequence as documents of one partnership's partners
PartnersOf(k1s) ==
    [i \in 1..Len(k1s) |-> Document("46-3819204", PartnerTins[i], k1s[i])]

\* groups of two or three partners whose shares sum to, just below, just
\* above and far from 100%
PctSumK1s ==
    {<<[BaseK1 EXCEPT !.partner_share_percentage = Some(6000)],
       [BaseK1 EXCEPT !.partner_share_percentage = p2]>> \o third :
        p2 \in Opt({2500, 3998, 3999, 4000, 4001, 4002, 6000}),
        third \in {<<>>} \cup
                  {<<[BaseK1 EXCEPT !.partner_share_percentage = p3]>> :
                      p3 \in Opt({1500})}}

\* one partnership over two years: a year whose partners are only partly
\* ingested, and a year whose shares sum to 100% or overshoot it
TwoYearK1s ==
    {<<<<[BaseK1 EXCEPT !.tax_year = Some("2023"),
                        !.partner_share_percentage = Some(6000)],
         [BaseK1 EXCEPT !.tax_year = Some("2023"),
                        !.partner_share_percentage = Some(2500)]>>,
       <<[BaseK1 EXCEPT !.tax_year = Some("2024"),
                        !.partner_share_percentage = Some(6000)],
         [BaseK1 EXCEPT !.tax_year = Some("2024"),
                        !.partner_share_percentage = Some(p)]>>>> :
        p \in {4000, 6000}}

\* the same partner's K-1 for the same year ingested twice: the same
\* document again, a corrected rental loss, a distribution that is absent,
\* zero or positive, and a share that differs
DuplicateK1s ==
    {<<[BaseK1 EXCEPT !.rental_real_estate_income = Some(-42315)],
       [BaseK1 EXCEPT !.rental_real_estate_income = Some(r),
                      !.distributions = d,
                      !.partner_share_percentage = Some(p)]>> :
        r \in {-42315, -38200}, d \in Opt({0, 5000}), p \in {2500, 3000}}

\* three partners holding 60%, 25% and 15% (or the third none) whose
\* ordinary income is proportional, somewhat off, five times the
\* proportional amount, or absent
ProportionalK1s ==
    {<<[BaseK1 EXCEPT !.partner_share_percentage = Some(6000),
                      !.ordinary_business_income = Some(600)],
       [BaseK1 EXCEPT !.partner_share_percentage = Some(2500),
                      !.ordinary_business_income = x2],
       [BaseK1 EXCEPT !.partner_share_percentage = Some(p3),
                      !.ordinary_business_income = x3]>> :
        x2 \in Opt({250, 290}), x3 \in Opt({150, 180, 750}), p3 \in {1500, 0}}

\* a partner holding 0.05% beside one holding 99.95%, the small partner's
\* income proportional (25 of 50000) or 16% above it (29 of 50000)
SmallShareK1s ==
    {<<[BaseK1 EXCEPT !.partner_share_percentage = Some(5),
                      !.ordinary_business_income = Some(x)],
       [BaseK1 EXCEPT !.partner_share_percentage = Some(9995),
                      !.ordinary_business_income = Some(50000 - x)]>> :
        x \in {25, 29}}

\* four partners holding 25% each whose interest income is alike, spread,
\* far off for one of them, or absent for one or two
EqualShareK1s ==
    {<<[BaseK1 EXCEPT !.interest_income = Some(100)],
       [BaseK1 EXCEPT !.interest_income = Some(104)],
       [BaseK1 EXCEPT !.interest_income = x3],
       [BaseK1 EXCEPT !.interest_income = x4]>> :
        x3 \in Opt({104, 110}), x4 \in Opt({100, 114, 200})}

\* two or three partners of one partnership and year whose K-1s spell the
\* partnership's name alike or differently, or leave it out
NameK1s ==
    {<<[BaseK1 EXCEPT !.partnership_name = Some("Sunbelt Fund II")],
       [BaseK1 EXCEPT !.partnership_name = n2]>> \o third :
        n2 \in Opt({"Sunbelt Fund II", "Sunbelt Fund 2", ""}),
        third \in {<<>>} \cup
                  {<<[BaseK1 EXCEPT !.partnership_name = Some("SUNBELT FUND II LP")]>>}}

\* the stores the cross-partner asset is run on, as sequences of documents
\* in the order they were ingested
ReconcileInputs ==
    {<<Document("46-3819204", "621-47-8830", p[1]),
       Document("46-3819204", "621-47-8830", p[2])>> : p \in ContinuityK1s}
    \cup {<<Document("46-3819204", "621-47-8830", p[2]),
            Document("46-3819204", "621-47-8830", p[1])>> : p \in ContinuityK1s}
    \cup {PartnersOf(k1s) : k1s \in PctSumK1s}
    \cup {PartnersOf(y[1]) \o PartnersOf(y[2]) : y \in TwoYearK1s}
    \cup {<<Document("46-3819204", "621-47-8830", p[1]),
            Document("46-3819204", "621-47-8830", p[2])>> : p \in DuplicateK1s}
    \cup {PartnersOf(k1s) : k1s \in ProportionalK1s \cup SmallShareK1s}
    \cup {PartnersOf(k1s) : k1s \in EqualShareK1s}
    \cup {PartnersOf(k1s) : k1s \in NameK1s}
    \cup {<<Document("46-3819204", "621-47-8830", p[1]),
            Document("46-3819204", "621-47-8830", p[1]),
            Document("46-3819204", "621-47-8830", p[2])>> : p \in DuplicateK1s}

\* every document of the sequence has gone through its run, without an AI
\* report, and no cross-partner pass has run yet
InitReconcile ==
    \E docs \in ReconcileInputs :
        LET n == Len(docs)
            ran(r) == r <= n
        IN  /\ parquet = StoreOf(docs)
            /\ versions = [i \in 1..(n + 1) |-> SubSeq(StoreOf(docs), 1, i - 1)]
            /\ pc = [r \in Runs |-> IF ran(r) THEN "done" ELSE "pending"]
            /\ doc = [r \in Runs |-> IF ran(r) THEN docs[r] ELSE NoDoc]
            /\ step = [r \in Runs |-> 0]
            /\ checks = [r \in Runs |-> <<>>]
            /\ det = [r \in Runs |->
                         IF ran(r) THEN Some(validate_k1(docs[r].data)) ELSE None]
            /\ ai = [r \in Runs |-> None]
            /\ combined = [r \in Runs |->
                              IF ran(r)
                              THEN Some(K1CombinedValidation(docs[r].data,
                                            validate_k1(docs[r].data), None))
                              ELSE None]
            /\ lock = 0
            /\ buf = [r \in Runs |->
                         IF ran(r) THEN SubSeq(StoreOf(docs), 1, r) ELSE <<>>]
            /\ snapshot = <<>>
            /\ cross = CrossPartnerResults(<<>>, "seed-a")
            /\ bucket = NoBucket
            /\ response = <<>>
            /\ view = <<>>

\* the sensor starts cross_partner_validation
NextReconcile == cross_partner_validation

SpecReconcile == InitReconcile /\ [][NextReconcile]_vars

-----------------------------------------------------------------------------
(* Properties *)

\* the checks of a list that fail at a severity, read off the list itself
Failing(cs, sev) == {i \in DOMAIN cs : cs[i].severity = sev /\ ~cs[i].passed}

\* every report the system holds: the staged single-K-1 reports and the
\* cross-partner results per partnership and year
AllReports ==
    {Val(det[r]) : r \in {q \in Runs : NotNone(det[q])}}
    \cup {g.result : g \in cross.groups}

\* C1: in every validation report, passed is true if and only if no
\* critical-severity check fails, however many warning or advisory checks fail.
C1_PassedIffNoCriticalFailure ==
    \A rep \in AllReports : rep.passed <=> Failing(rep.checks, CRITICAL) = {}

\* a report that passes although a warning and an advisory check fail
C1_Witness ==
    \E rep \in AllReports :
        /\ rep.passed
        /\ Failing(rep.checks, WARNING) # {}
        /\ Failing(rep.checks, ADVISORY) # {}

\* C2: critical_count, warning_count and advisory_count each equal the number
\* of checks of that severity with passed = FALSE; passing checks count nowhere.
C2_CountsAreFailingChecks ==
    \A rep \in AllReports :
        /\ rep.critical_count = Cardinality(Failing(rep.checks, CRITICAL))
        /\ rep.warning_count  = Cardinality(Failing(rep.checks, WARNING))
        /\ rep.advisory_count = Cardinality(Failing(rep.checks, ADVISORY))

\* a report with failures at all three severities beside passing checks
C2_Witness ==
    \E rep \in AllReports :
        /\ rep.critical_count >= 2
        /\ rep.warning_count >= 1
        /\ rep.advisory_count >= 1
        /\ \E i \in DOMAIN rep.checks : rep.checks[i].passed

\* the cross-partner results that touch run r's record: those of the group
\* of its (EIN, tax year), computed from rows that include its row
TouchingResults(r) ==
    {g.result : g \in {h \in cross.groups :
        /\ \E i \in DOMAIN snapshot : snapshot[i].run = r
        /\ h.key = GroupKey(Row(r, doc[r]))}}

LowScore(c) == NotNone(c.ai_report) /\ Val(c.ai_report).overall_coherence_score < 50

C5_AbsentScorePasses ==
    \A r \in Runs :
        NotNone(combined[r]) =>
            LET c == Val(combined[r])
            IN  (/\ Failing(c.deterministic_report.checks, CRITICAL) = {}
                 /\ Failing(c.deterministic_report.checks, WARNING) = {}
                 /\ IsNone(c.ai_report))
                => c.overall_status = "passed"

\* a clean record combined without an AI report, an advisory check failing
C5_Witness ==
    \E r \in Runs :
        /\ NotNone(combined[r])
        /\ Failing(Val(combined[r]).deterministic_report.checks, CRITICAL) = {}
        /\ Failing(Val(combined[r]).deterministic_report.checks, WARNING) = {}
        /\ Failing(Val(combined[r]).deterministic_report.checks, ADVISORY) # {}
        /\ IsNone(Val(combined[r]).ai_report)
        /\ Val(combined[r]).overall_status = "passed"

\* C6: appends to the store are serialized, so records of one partnership
\* and year ingested by concurrent runs are all kept: at most one run is
\* inside its read-modify-write, and every run that has written finds its
\* record in the store from then on.
C6_NoLostAppend ==
    /\ Cardinality({r \in Runs : pc[r] \in {"locked", "modified", "written"}}) <= 1
    /\ \A r \in Runs :
           pc[r] \in {"written", "done"} =>
               \E i \in DOMAIN parquet : parquet[i] = Row(r, doc[r])

\* every run has ingested a record of the same partnership and year, and
\* the store holds one row per run
C6_Witness ==
    /\ \A r \in Runs : pc[r] = "done"
    /\ \A r, q \in Runs : GroupKey(Row(r, doc[r])) = GroupKey(Row(q, doc[q]))
    /\ Len(parquet) = MaxRuns
    /\ \A r \in Runs : \E i \in DOMAIN parquet : parquet[i].run = r

\* rows is an initial part of more
IsPrefix(rows, more) ==
    /\ Len(rows) <= Len(more)
    /\ \A i \in DOMAIN rows : more[i] = rows[i]

\* C7: a reconciliation read, which takes no lock, loads the last committed
\* version of the store, and a write leaves every record already in the
\* store as it was: what is added is added as a new record.
C7_CommittedSnapshotImmutableRecords ==
    [][/\ snapshot' # snapshot => snapshot' = versions[Len(versions)]
       /\ IsPrefix(parquet, parquet')
       /\ IsPrefix(snapshot, parquet)]_vars

\* the store holds a K-1 and its amendment as two records, while the last
\* reconciliation read, taken before the amendment, saw the first alone
C7_Witness ==
    /\ Len(snapshot) = 1
    /\ Len(parquet) = 2
    /\ snapshot[1] = parquet[1]
    /\ CompositeKey(parquet[1]) = CompositeKey(parquet[2])
    /\ parquet[1].data # parquet[2].data

\* the cross-partner pass has run over a snapshot holding run r's record
CrossPassDone(r) == \E i \in DOMAIN snapshot : snapshot[i].run = r

C9_NoPartialResults ==
    \A r \in Runs :
        /\ NotNone(det[r]) =>
               /\ step[r] = NumCheckCalls
               /\ Val(det[r]).checks = checks[r]
               /\ Len(Val(det[r]).checks) = Len(RuleCatalog)
        /\ NotNone(combined[r]) =>
               /\ NotNone(det[r])
               /\ Val(combined[r]).deterministic_report = Val(det[r])
               /\ Val(combined[r]).overall_status \in {"passed", "warnings", "failed"}
        /\ (pc[r] = "aborted" /\ step[r] < NumCheckCalls) =>
               (IsNone(det[r]) /\ IsNone(combined[r]))

\* a run given up after some check functions have run and before the rest
C9_Witness ==
    \E r \in Runs :
        /\ pc[r] = "aborted"
        /\ 0 < step[r] /\ step[r] < NumCheckCalls
        /\ checks[r] # <<>>
        /\ IsNone(det[r]) /\ IsNone(combined[r])

\* C10: whatever fields are present or absent, the rule ids of a report are
\* the registered rules, each once and in catalog order.
C10_OneCheckPerRule ==
    \A r \in Runs :
        NotNone(det[r]) =>
            [i \in DOMAIN Val(det[r]).checks |-> Val(det[r]).checks[i].rule_id]
                = RuleCatalog

\* a report for a K-1 on which nothing but the share was extracted
C10_Witness ==
    \E r \in Runs :
        /\ NotNone(det[r])
        /\ \A f \in (DOMAIN doc[r].data) \ {"partner_share_percentage"} :
               IsNone(doc[r].data[f])
        /\ Len(Val(det[r]).checks) = Len(RuleCatalog)

\* the inputs without which a rule has nothing to evaluate, rule by rule in
\* catalog order; the presence rules FC-001, FC-003 and FC-004 have none,
\* and for ARITH-009 the absent ordinary dividends are the finding itself
RequiredInputs ==
    << {"qualified_dividends", "ordinary_dividends"},
       {"partner_share_percentage"} >>
    \o [i \in 1..Len(Arith003Fields) |-> {Arith003Fields[i]}]
    \o << {"capital_account_beginning", "capital_account_ending"},
          {"partner_type", "self_employment_earnings", "ordinary_business_income"},
          {"partner_type", "self_employment_earnings", "guaranteed_payments"},
          {"qbi_deduction", "ordinary_business_income"},
          {"qualified_dividends"},
          {"foreign_taxes_paid"},
          {"section_179_deduction", "ordinary_business_income"},
          {}, {}, {},
          {"partner_share_percentage"} >>
    \o [i \in 1..Len(Fc021Fields) |-> {Fc021Fields[i]}]
    \o << {"section_179_deduction"},
          {"partner_type", "self_employment_earnings", "guaranteed_payments"} >>
    \o [i \in 1..Len(MagnitudeThresholds) |-> {MagnitudeThresholds[i][1]}]
    \o << {"capital_account_beginning", "capital_account_ending"} >>

\* the rule at position k of the catalog cannot evaluate the record
CannotEvaluate(k, data) == \E f \in RequiredInputs[k] : IsNone(data[f])

\* what a check function hands back is a check
IsRuleCheck(c) ==
    /\ DOMAIN c = {"rule_id", "severity", "passed", "message"}
    /\ c.rule_id \in {RuleCatalog[k] : k \in DOMAIN RuleCatalog}
    /\ c.severity \in Severity
    /\ c.passed \in BOOLEAN
    /\ c.passed => c.message = <<>>

SnapshotData(id) ==
    (CHOOSE row \in {snapshot[i] : i \in DOMAIN snapshot} : row.run = id).data

\* the checks of a list that carry a rule id
ChecksOf(cs, id) == {i \in DOMAIN cs : cs[i].rule_id = id}

\* the gap between the prior ending and the current beginning balance of a
\* consecutive-year pair whose two balances are present
ContinuityGap(p) ==
    Abs(Val(SnapshotData(p.prior).capital_account_ending)
        - Val(SnapshotData(p.current).capital_account_beginning))

\* the pairs of consecutive years on which continuity can be evaluated
ContinuityPairs ==
    {p \in cross.pairs :
        /\ NotNone(SnapshotData(p.prior).capital_account_ending)
        /\ NotNone(SnapshotData(p.current).capital_account_beginning)}

\* C12 as stated: there is a fixed tolerance above zero within which two
\* balances that differ still pass the continuity check.
C12_PassesWithinTolerance ==
    \E tol \in 1..2 :
        \A p \in ContinuityPairs :
            ContinuityGap(p) <= tol =>
                \A i \in ChecksOf(p.checks, "CROSS_B1") : p.checks[i].passed

\* C12 amended: with both balances present there is one continuity check; it
\* passes exactly when the balances are equal, and is otherwise a critical
\* failure whose message ends with the gap between them.
C12_ExactContinuity ==
    \A p \in cross.pairs :
        IF p \in ContinuityPairs
        THEN /\ Cardinality(ChecksOf(p.checks, "CROSS_B1")) = 1
             /\ \A i \in ChecksOf(p.checks, "CROSS_B1") :
                    LET c == p.checks[i]
                    IN  /\ c.severity = CRITICAL
                        /\ c.passed <=> ContinuityGap(p) = 0
                        /\ ~c.passed => c.message[Len(c.message)] = ContinuityGap(p)
        ELSE ChecksOf(p.checks, "CROSS_B1") = {}

\* prior ending 258185 and current beginning 318500: a critical failure
\* stating 60315, beside which a pair one dollar apart fails as well
C12_Witness ==
    \E p \in ContinuityPairs :
        /\ Val(SnapshotData(p.prior).capital_account_ending) = 258185
        /\ Val(SnapshotData(p.current).capital_account_beginning) = 318500
        /\ \E i \in ChecksOf(p.checks, "CROSS_B1") :
               /\ ~p.checks[i].passed
               /\ p.checks[i].severity = CRITICAL
               /\ p.checks[i].message[Len(p.checks[i].message)] = 60315

\* the rows of a group among the rows last loaded
SnapshotGroup(key) == {i \in DOMAIN snapshot : GroupKey(snapshot[i]) = key}

\* the sum of the share percentages present on the rows of a set
RECURSIVE PctTotal(_)
PctTotal(rows) ==
    IF rows = {} THEN 0
    ELSE LET i == CHOOSE j \in rows : TRUE
         IN  (IF IsNone(snapshot[i].data.partner_share_percentage) THEN 0
              ELSE Val(snapshot[i].data.partner_share_percentage))
             + PctTotal(rows \ {i})

\* the groups in which some partner's share is known
GroupsWithShares ==
    {g \in cross.groups :
        \E i \in SnapshotGroup(g.key) :
            NotNone(snapshot[i].data.partner_share_percentage)}

\* the failing checks of a result that carry a rule id
FailingOf(res, id) == {i \in ChecksOf(res.checks, id) : ~res.checks[i].passed}

SameKeyPairs ==
    {p \in (DOMAIN snapshot) \X (DOMAIN snapshot) :
        /\ p[1] < p[2]
        /\ CompositeKey(snapshot[p[1]]) = CompositeKey(snapshot[p[2]])}

\* the dollar amount fields on which two rows differ
Differing(p) ==
    {f \in DollarAmountFields : snapshot[p[1]].data[f] # snapshot[p[2]].data[f]}

IncomeFieldSet == {A3IncomeFields[i] : i \in DOMAIN A3IncomeFields}

\* the rows of a group that report the field and hold a positive share
Allocated(key, f) ==
    {i \in SnapshotGroup(key) :
        /\ snapshot[i].data[f] # None
        /\ snapshot[i].data.partner_share_percentage # None
        /\ Val(snapshot[i].data.partner_share_percentage) > 0}

\* the sum of a field over rows that report it
RECURSIVE FieldTotal(_, _)
FieldTotal(rows, f) ==
    IF rows = {} THEN 0
    ELSE LET i == CHOOSE j \in rows : TRUE
         IN  Val(snapshot[i].data[f]) + FieldTotal(rows \ {i}, f)

\* |actual share - implied share| of row i, times both totals
ShareGap(i, f, rows) ==
    LET d == snapshot[i].data
        a == Val(d[f]) * PctTotal(rows)
        b == Val(d.partner_share_percentage) * FieldTotal(rows, f)
    IN  IF a >= b THEN a - b ELSE b - a

\* |total of the field| times the row's share percentage
ShareBase(i, f, rows) ==
    LET t == FieldTotal(rows, f)
    IN  (IF t >= 0 THEN t ELSE 0 - t)
            * Val(snapshot[i].data.partner_share_percentage)

\* the actual share is more than 10% of the implied share away from it
RelativelyOff(i, f, rows) == 10 * ShareGap(i, f, rows) > ShareBase(i, f, rows)

\* the same with the implied share taken as at least one thousandth
FlooredOff(i, f, rows) ==
    IF 1000 * Val(snapshot[i].data.partner_share_percentage) >= PctTotal(rows)
    THEN RelativelyOff(i, f, rows)
    ELSE LET t == FieldTotal(rows, f)
         IN  10000 * ShareGap(i, f, rows)
                 > (IF t >= 0 THEN t ELSE 0 - t) * PctTotal(rows)

\* the proportionality checks of a group's result for a field
A3Of(g, f) == ChecksOf(g.result.checks, "CROSS_A3_" \o f)

Elements(s) == {s[i] : i \in DOMAIN s}

\* row i's income in the field is five times what its share would give it
\* beside the other rows
FiveTimesProportional(i, f, rows) ==
    \A j \in rows \ {i} :
        Val(snapshot[i].data[f]) * Val(snapshot[j].data.partner_share_percentage)
            = 5 * Val(snapshot[j].data[f])
                * Val(snapshot[i].data.partner_share_percentage)

\* C17: in a three-member group holding 60%, 25% and 15% in which one
\* member's income is five times its proportional share, a proportionality
\* warning for that field names that member.
C17_WarningNamesFieldAndMember ==
    \A g \in cross.groups : \A f \in IncomeFieldSet :
        LET rows == Allocated(g.key, f)
        IN  \A i \in rows :
                (/\ Cardinality(rows) = 3
                 /\ {Val(snapshot[j].data.partner_share_percentage) : j \in rows}
                        = {6000, 2500, 1500}
                 /\ FiveTimesProportional(i, f, rows))
                => \E k \in A3Of(g, f) :
                       /\ g.result.checks[k].severity = WARNING
                       /\ ~g.result.checks[k].passed
                       /\ \/ snapshot[i].tin
                                \in Elements(g.result.checks[k].partners_involved)
                          \/ snapshot[i].tin
                                \in Elements(g.result.checks[k].message)

\* the least common multiple of the share percentages of a set of rows
RECURSIVE SharesLCM(_)
SharesLCM(rows) ==
    IF rows = {} THEN 1
    ELSE LET i == CHOOSE j \in rows : TRUE
             p == Val(snapshot[i].data.partner_share_percentage)
             m == SharesLCM(rows \ {i})
         IN  (p \div GCD(p, m)) * m

\* row i's amount per percentage point, times the common multiple
PerPoint(i, f, rows) ==
    Val(snapshot[i].data[f])
        * (SharesLCM(rows) \div Val(snapshot[i].data.partner_share_percentage))

\* the k-th smallest value of a family x over the index set I
KthSmallest(I, x, k) ==
    CHOOSE v \in {x[i] : i \in I} :
        /\ Cardinality({i \in I : x[i] <= v}) >= k
        /\ Cardinality({i \in I : x[i] < v}) < k

\* twice the median of x over I: the two middle values added up
TwiceMedian(I, x) ==
    LET n == Cardinality(I)
    IN  KthSmallest(I, x, (n + 1) \div 2) + KthSmallest(I, x, n \div 2 + 1)

\* row i lies further from the median than three times the median absolute
\* deviation; with d twice the distances from the median and TwiceMedian(d)
\* four times the MAD, the test is 2 d[i] > 3 TwiceMedian(d)
FarFromMedian(i, f, rows) ==
    LET x  == [j \in rows |-> PerPoint(j, f, rows)]
        m2 == TwiceMedian(rows, x)
        d  == [j \in rows |-> IF 2 * x[j] >= m2 THEN 2 * x[j] - m2
                               ELSE m2 - 2 * x[j]]
    IN  2 * d[i] > 3 * TwiceMedian(rows, d)

\* the outlier warnings of a group for a field
D3Of(o, f) ==
    {k \in ChecksOf(o.checks, "CROSS_D3_OUTLIER_DETECTION") :
        o.checks[k].message[2] = f}

\* C18: outlier detection runs only for groups of three or more records (with
\* three or more of them giving the amount and a positive share), and then a
\* field has one failing warning per record whose amount per percentage point
\* is more than 3 x MAD away from the median; otherwise it has none.
C18_OutlierBeyondThreeMAD ==
    \A o \in cross.outliers : \A f \in DollarAmountFields :
        LET rows == Allocated(o.key, f)
        IN  /\ \A k \in D3Of(o, f) :
                   /\ o.checks[k].severity = WARNING
                   /\ ~o.checks[k].passed
            /\ Cardinality(D3Of(o, f))
                   = IF Cardinality(SnapshotGroup(o.key)) >= 3
                        /\ Cardinality(rows) >= 3
                     THEN Cardinality({i \in rows : FarFromMedian(i, f, rows)})
                     ELSE 0

\* four partners at 25% with interest income 100, 104, 110 and 200: only the
\* last is an outlier and the field has exactly one warning
C18_Witness ==
    \E o \in cross.outliers :
        LET f    == "interest_income"
            rows == Allocated(o.key, f)
        IN  /\ Cardinality(rows) = 4
            /\ \E i \in rows :
                   /\ Val(snapshot[i].data[f]) = 200
                   /\ {j \in rows : FarFromMedian(j, f, rows)} = {i}
            /\ Cardinality(D3Of(o, f)) = 1

\* the dollar amounts a rule takes into its sums or differences with 0 in
\* their place when they are absent (`x or 0.0`, a sum over the values that
\* are not None)
ZeroDefaulted(id) ==
    CASE id = "CAP-001" ->
             {IncomeFields[i] : i \in DOMAIN IncomeFields}
             \cup {"section_179_deduction", "foreign_taxes_paid", "distributions"}
      [] id = "ARITH-005" ->
             {IncomeFields[i] : i \in DOMAIN IncomeFields} \cup {"distributions"}
      [] id = "ARITH-006" -> {"guaranteed_payments"}
      [] id = "ARITH-008" -> {"guaranteed_payments"}
      [] OTHER -> {}

\* the dollar amounts rule k reads
AmountsRead(k) ==
    (RequiredInputs[k] \cup ZeroDefaulted(RuleCatalog[k])) \cap DollarAmountFields

\* C19: no rule takes an absent dollar amount for zero: a rule that reads an
\* amount the record does not give treats it as not applicable and passes.
C19_AbsentNeverZero ==
    \A r \in Runs :
        NotNone(det[r]) =>
            \A k \in DOMAIN Val(det[r]).checks :
                (\E f \in AmountsRead(k) : IsNone(doc[r].data[f])) =>
                    Val(det[r]).checks[k].passed

\* the check of a finished report that carries a rule id
CheckOf(r, id) ==
    LET cs == Val(det[r]).checks
    IN  cs[CHOOSE k \in DOMAIN cs : cs[k].rule_id = id]

\* the runs whose report is in and whose record gives a share percentage
RunsWithShare ==
    {r \in Runs : NotNone(det[r]) /\ doc[r].data.partner_share_percentage # None}

PresenceRules ==
    {<<"tax_year", "FC-001">>, <<"partnership_name", "FC-003">>,
     <<"partner_type", "FC-004">>}

\* a field that is absent or the empty string
AbsentOrEmpty(x) == x = None \/ x = Some("")

MustBeNonNegative ==
    {"guaranteed_payments", "interest_income", "ordinary_dividends",
     "qualified_dividends", "section_179_deduction", "foreign_taxes_paid",
     "distributions"}

\* ALLOWS_NEGATIVE: the fields that carry no sign constraint
AllowsNegative ==
    {"ordinary_business_income", "rental_real_estate_income",
     "short_term_capital_gains", "long_term_capital_gains",
     "self_employment_earnings", "qbi_deduction",
     "capital_account_beginning", "capital_account_ending"}

\* the rule ids of the sign checks, each with the field it is about
SignRules ==
    {<<Arith003Id(Arith003Fields[i]), Arith003Fields[i]>> : i \in DOMAIN Arith003Fields}
    \cup {<<Fc021Id(Fc021Fields[i]), Fc021Fields[i]>> : i \in DOMAIN Fc021Fields}

\* the sign checks of a report
SignChecks(report) ==
    SelectSeq(report.checks, LAMBDA c : \E s \in SignRules : s[1] = c.rule_id)

\* values a field without a sign constraint may take
AnySign == Opt({-200000, 200000})

EmbeddedLimits ==
    [y \in {"2020", "2021", "2022", "2023", "2024", "2025"} |->
        CASE y = "2020" -> 1040000 [] y = "2021" -> 1050000
          [] y = "2022" -> 1080000 [] y = "2023" -> 1160000
          [] y = "2024" -> 1220000 [] y = "2025" -> 1250000]

\* tables a configuration could supply: the embedded one, and a later
\* version of it that adds a limit for 2026
SuppliedTables ==
    {EmbeddedLimits,
     [y \in DOMAIN EmbeddedLimits \cup {"2026"} |->
         IF y = "2026" THEN 2560000 ELSE EmbeddedLimits[y]]}

\* the runs whose report is in and whose record gives a section 179 amount
\* and a tax year
RunsWithDeduction ==
    {r \in Runs : /\ NotNone(det[r])
                  /\ doc[r].data.section_179_deduction # None
                  /\ doc[r].data.tax_year # None}

Amt(d, f) == IF d[f] = None THEN 0 ELSE d[f][1]

\* the distance between two amounts
Dist(a, b) == IF a >= b THEN a - b ELSE b - a

\* the discrepancy is beyond max(0.25 x |actual ending|, 10000)
BeyondTolerance(discrepancy, ending) ==
    /\ 4 * discrepancy > Dist(ending, 0)
    /\ discrepancy > 10000

\* the runs whose report is in and whose record gives both capital balances
RunsWithBalances ==
    {r \in Runs : /\ NotNone(det[r])
                  /\ doc[r].data.capital_account_beginning # None
                  /\ doc[r].data.capital_account_ending # None}

----------------------------------------------------------------------------
(* C25: self-employment earnings of an entity-type partner *)

\* the rules that read the self-employment earnings
SelfEmploymentRules ==
    {RuleCatalog[k] : k \in {j \in DOMAIN RuleCatalog :
                                "self_employment_earnings" \in RequiredInputs[j]}}

\* the runs whose report is in and whose partner is a corporation with
\* self-employment earnings other than zero
RunsOfEntityWithSE ==
    {r \in Runs : /\ NotNone(det[r])
                  /\ doc[r].data.partner_type = Some("corporation")
                  /\ doc[r].data.self_employment_earnings # None
                  /\ Val(doc[r].data.self_employment_earnings) # 0}

\* C25: for a partner that is a corporation, self-employment earnings other
\* than zero give a failing critical check from a rule that reads the
\* self-employment earnings.
C25_EntitySelfEmploymentCritical ==
    \A r \in RunsOfEntityWithSE :
        \E i \in DOMAIN Val(det[r]).checks :
            LET c == Val(det[r]).checks[i]
            IN  /\ c.rule_id \in SelfEmploymentRules
                /\ c.severity = CRITICAL
                /\ ~c.passed

----------------------------------------------------------------------------
(* C26: qualified dividends against ordinary dividends *)

\* the runs whose report is in and whose record gives both dividend amounts
RunsWithDividends ==
    {r \in Runs : /\ NotNone(det[r])
                  /\ doc[r].data.qualified_dividends # None
                  /\ doc[r].data.ordinary_dividends # None}

\* C26: when both dividend amounts are present and the qualified amount is
\* the larger, the ARITH-001 check of the report is critical and has failed;
\* the report as a whole has then failed too.
C26_QualifiedAboveOrdinaryFails ==
    \A r \in RunsWithDividends :
        LET q == doc[r].data.qualified_dividends[1]
            o == doc[r].data.ordinary_dividends[1]
            c == CheckOf(r, "ARITH-001")
        IN  q > o => /\ c.passed = FALSE
                     /\ c.severity = CRITICAL
                     /\ ~Val(det[r]).passed

\* a report on qualified dividends of 2000 against ordinary dividends of 1000
C26_Witness ==
    \E r \in RunsWithDividends :
        /\ doc[r].data.qualified_dividends = <<2000>>
        /\ doc[r].data.ordinary_dividends = <<1000>>
        /\ ~CheckOf(r, "ARITH-001").passed

----------------------------------------------------------------------------
(* C27: the reconciler leaves its input alone and can be run again *)

\* C27: a pass of cross_partner_validation changes neither the store nor
\* the documents it read, and a pass over the snapshot the last pass loaded
\* produces the cross-partner checks the last pass produced.
C27_ReconcilerPureAndRepeatable ==
    [][/\ parquet' = parquet
       /\ versions' = versions
       /\ doc' = doc
       /\ (snapshot' = snapshot => cross' = cross)]_vars

----------------------------------------------------------------------------
(* C28: the evaluator is a function of the record *)

\* the pairs of distinct runs that have evaluated the same extracted data
SameRecordRuns ==
    {p \in Runs \X Runs : /\ p[1] # p[2]
                          /\ NotNone(det[p[1]]) /\ NotNone(det[p[2]])
                          /\ doc[p[1]].data = doc[p[2]].data}

----------------------------------------------------------------------------
(* The report browser, 1: the validation tab of the React report detail *)

\* EIN_RE = /^\d{2}-\d{7}$/ on the strings a placeholder mapping holds
EIN_RE(s) == s \in {"46-3819204", "82-1147035"}

\* String.prototype.trim()
Trim(s) ==
    CASE s = " 46-3819204 " -> "46-3819204"
      [] OTHER              -> s   \* the other strings have no outer blanks

\* the placeholder keys in the order of a.localeCompare(b)
PlaceholderOrder == <<"<EIN_1>", "<EIN_2>", "<ORG_1>", "<PERSON_1>">>

\* Object.entries(placeholderMapping).sort(([a], [b]) => a.localeCompare(b))
SortedEntries(placeholderMapping) ==
    LET keys == SelectSeq(PlaceholderOrder,
                          LAMBDA k : k \in DOMAIN placeholderMapping)
    IN  [i \in DOMAIN keys |-> <<keys[i], placeholderMapping[keys[i]]>>]

\* the loop over the entries: the first value that is an EIN, trimmed
FirstEin(entries) ==
    LET hits == SelectSeq(entries, LAMBDA e : EIN_RE(Trim(e[2])))
    IN  IF hits = <<>> THEN None ELSE Some(Trim(hits[1][2]))

\* cpData.partnerships_validated || []
OrEmpty(x) == IF IsNone(x) THEN <<>> ELSE Val(x)

\* a summary that counts every result of a severity, passed or not
SummaryOfAllSeverities(filteredResults) ==
    LET passed == Len(SelectSeq(filteredResults, LAMBDA r : r.passed))
    IN  [total_checks |-> Len(filteredResults),
         passed       |-> passed,
         failed       |-> Len(filteredResults) - passed,
         critical     |-> Len(SelectSeq(filteredResults,
                              LAMBDA r : r.severity = "critical")),
         warnings     |-> Len(SelectSeq(filteredResults,
                              LAMBDA r : r.severity = "warning")),
         advisory     |-> Len(SelectSeq(filteredResults,
                              LAMBDA r : r.severity = "advisory"))]

\* the summary of the filtered results
FilteredSummary(filteredResults) ==
    LET passed == Len(SelectSeq(filteredResults, LAMBDA r : r.passed))
    IN  [total_checks |-> Len(filteredResults),
         passed       |-> passed,
         failed       |-> Len(filteredResults) - passed,
         critical     |-> Len(SelectSeq(filteredResults,
                              LAMBDA r : ~r.passed /\ r.severity = "critical")),
         warnings     |-> Len(SelectSeq(filteredResults,
                              LAMBDA r : ~r.passed /\ r.severity = "warning")),
         advisory     |-> Len(SelectSeq(filteredResults,
                              LAMBDA r : ~r.passed /\ r.severity = "advisory"))]

\* filterCrossPartnerForReport(cpData, placeholderMapping)
filterCrossPartnerForReport(cpData, placeholderMapping) ==
    IF IsNone(cpData) \/ IsNone(Val(cpData).results) \/ IsNone(placeholderMapping)
    THEN cpData
    ELSE LET cp == Val(cpData)
             partnershipEin == FirstEin(SortedEntries(Val(placeholderMapping)))
             filteredResults ==
                 SelectSeq(Val(cp.results),
                           LAMBDA r : r.partnership_ein = Val(partnershipEin))
             filteredPartnerships ==
                 SelectSeq(OrEmpty(cp.partnerships_validated),
                           LAMBDA p : p.partnership_ein = Val(partnershipEin))
         IN  IF IsNone(partnershipEin)
             THEN cpData
             ELSE Some([cp EXCEPT
                     !.summary = FilteredSummary(filteredResults),
                     !.results = Some(filteredResults),
                     !.partnerships_validated = Some(filteredPartnerships),
                     !.year_pairs_checked =
                         IF Len(filteredPartnerships) > 1
                         THEN cp.year_pairs_checked ELSE 0])

\* the cross-partner results a report may be shown with: none, one of
\* either partnership, two of one partnership, or one of each kind
CrossPartnerResult(ein, severity, passed) ==
    [partnership_ein |-> ein, severity |-> severity, passed |-> passed]

ResultLists ==
    {<<>>}
    \cup {<<a>> : a \in {CrossPartnerResult("46-3819204", "warning", TRUE),
                         CrossPartnerResult("82-1147035", "critical", FALSE)}}
    \cup {<<CrossPartnerResult("46-3819204", "warning", TRUE),
            CrossPartnerResult("46-3819204", "advisory", FALSE)>>}
    \cup {<<CrossPartnerResult("82-1147035", "critical", FALSE),
            CrossPartnerResult("46-3819204", "critical", FALSE),
            CrossPartnerResult("46-3819204", "warning", TRUE),
            CrossPartnerResult("46-3819204", "warning", FALSE),
            CrossPartnerResult("46-3819204", "advisory", FALSE)>>}

\* cross_partner_results.json as the validation tab reads it
CrossPartnerData(results, partnerships_validated) ==
    [summary                |-> IF IsNone(results) THEN FilteredSummary(<<>>)
                                ELSE FilteredSummary(Val(results)),
     results                |-> results,
     partnerships_validated |-> partnerships_validated,
     year_pairs_checked     |-> 1]

PartnershipLists ==
    Opt({<<[partnership_ein |-> "46-3819204", tax_year |-> "2023"],
           [partnership_ein |-> "46-3819204", tax_year |-> "2024"],
           [partnership_ein |-> "82-1147035", tax_year |-> "2024"]>>})

CrossPartnerInputs ==
    Opt({CrossPartnerData(None, None)}
        \cup {CrossPartnerData(Some(rs), ps) :
                 rs \in ResultLists, ps \in PartnershipLists})

\* the placeholder mappings of a report: none, one without an EIN, one
\* whose EIN has blanks around it, one with the EINs of two partnerships
PlaceholderMappings ==
    Opt({[k \in {"<PERSON_1>"} |-> "Dana Whitfield"],
         [k \in {"<EIN_1>", "<ORG_1>"} |->
             IF k = "<EIN_1>" THEN "46-3819204" ELSE "Sunbelt Fund II"],
         [k \in {"<EIN_2>", "<PERSON_1>"} |->
             IF k = "<EIN_2>" THEN " 46-3819204 " ELSE "621-47-8830"],
         [k \in {"<EIN_1>", "<EIN_2>"} |->
             IF k = "<EIN_1>" THEN "82-1147035" ELSE "46-3819204"]})

\* ReportDetail renders the validation tab: the cross-partner results of
\* the report itself, or else the ones fetched for the page, filtered by the
\* report's placeholder mapping
ReportDetail ==
    \E own \in {None, Some(CrossPartnerData(Some(<<>>), None))},
       crossPartnerData \in CrossPartnerInputs,
       mapping \in PlaceholderMappings :
        LET cpData == IF NotNone(own) THEN own ELSE crossPartnerData
        IN  /\ view' = Some([cpData  |-> cpData,
                             mapping |-> mapping,
                             crossPartnerData |->
                                 filterCrossPartnerForReport(cpData, mapping)])
            /\ UNCHANGED <<pipeline, bucket, response>>

----------------------------------------------------------------------------
(* The report browser, 2: the report list of the Express server.  An S3    *)
(* key is the tuple of its path segments; an object is <<>> when its body  *)
(* is not JSON and <<value>> when it parses.                                *)

\* readS3Json(key): the parsed body, or null when the request or the parse
\* throws
readS3Json(key) ==
    IF ~bucket.reachable \/ key \notin DOMAIN bucket.objects
    THEN None
    ELSE bucket.objects[key]

\* the directory names in the order of Array.prototype.sort(), which is
\* also the order S3 lists keys in
DirOrder ==
    <<"k1_sunbelt_20241105_101500", "k1_sunbelt_20241106_090000", "legacy_report">>

\* listS3Prefixes('output/'): the common prefixes under output/, one per
\* directory that holds an object
listS3Prefixes ==
    SelectSeq(DirOrder, LAMBDA d :
        \E key \in DOMAIN bucket.objects :
            Len(key) = 3 /\ key[1] = "output" /\ key[2] = d)

\* dirs.sort()
SortDirs(dirs) ==
    SelectSeq(DirOrder, LAMBDA d : \E i \in DOMAIN dirs : dirs[i] = d)

\* deriveStagingDir: the name without a _YYYYMMDD_HHMMSS suffix
deriveStagingDir(outputDirName) ==
    CASE outputDirName \in {"k1_sunbelt_20241105_101500",
                            "k1_sunbelt_20241106_090000"} -> "k1_sunbelt"
      [] OTHER -> outputDirName

\* readStagingJson: the run's staging object, else the one at the root
readStagingJson(runId, filename) ==
    IF NotNone(readS3Json(<<"staging", runId, filename>>))
    THEN readS3Json(<<"staging", runId, filename>>)
    ELSE readS3Json(<<"staging", filename>>)

\* JavaScript's falsiness of an optional string
Falsy(x) == IsNone(x) \/ Val(x) = ""

\* x || null
OrNull(x) == IF Falsy(x) THEN None ELSE x

\* obj.field of `obj || {}`
Field(obj, f) == IF IsNone(obj) THEN None ELSE Val(obj)[f]

\* text.replaceAll(placeholder, original); the names of the reports are a
\* placeholder or hold none
ReplaceAll(text, placeholder, original) ==
    IF text = placeholder THEN original ELSE text

RECURSIVE ReplaceEach(_, _, _)
ReplaceEach(text, entries, i) ==
    IF i > Len(entries) THEN text
    ELSE ReplaceEach(ReplaceAll(text, entries[i][1], entries[i][2]), entries, i + 1)

\* resolvePlaceholders(text, mapping) of server.js
resolvePlaceholders(text, mapping) ==
    IF Falsy(text) \/ IsNone(mapping) THEN text
    ELSE Some(ReplaceEach(Val(text), SortedEntries(Val(mapping)), 1))

\* cleanNullString(val)
cleanNullString(val) == IF val = Some("null") THEN None ELSE val

\* the entry pushed for a directory whose pipeline_results.json was read
ReportEntry(dir, results) ==
    LET k1        == results.k1_data
        sanitized == readStagingJson(deriveStagingDir(dir), "sanitized_text.json")
        mapping   == Field(sanitized, "placeholder_mapping")
        name      == resolvePlaceholders(Field(k1, "partnership_name"), mapping)
    IN  [directory              |-> dir,
         partnership_name       |-> IF Falsy(name) THEN dir ELSE Val(name),
         partner_type           |-> OrNull(cleanNullString(Field(k1, "partner_type"))),
         tax_year               |-> OrNull(Field(k1, "tax_year")),
         net_taxable_income     |-> Field(results.financial_analysis, "net_taxable_income"),
         total_income           |-> Field(results.financial_analysis, "total_income"),
         capital_account_ending |-> Field(k1, "capital_account_ending"),
         pii_entities           |-> OrZero(Field(results.pii_stats, "total_entities_detected")),
         validation_status      |-> OrNull(Field(results.validation, "overall_status")),
         processed_at           |-> OrNull(Field(results.processing_metadata,
                                                 "report_generated_at"))]

\* a loop that pushes an entry for every directory, read or not
ReportsOfEveryDir(dirs) ==
    [i \in DOMAIN dirs |->
        IF IsNone(readS3Json(<<"output", dirs[i], "pipeline_results.json">>))
        THEN [directory |-> dirs[i]]
        ELSE ReportEntry(dirs[i],
                 Val(readS3Json(<<"output", dirs[i], "pipeline_results.json">>)))]

\* the loop over the directories: `if (!results) continue`, else push
Reports(dirs) ==
    LET read == SelectSeq(dirs, LAMBDA d :
                    NotNone(readS3Json(<<"output", d, "pipeline_results.json">>)))
    IN  [i \in DOMAIN read |->
            ReportEntry(read[i],
                Val(readS3Json(<<"output", read[i], "pipeline_results.json">>)))]

\* GET /api/reports: the list of the reports, or 500 when the listing throws
GetApiReports ==
    /\ response' =
          IF bucket.reachable
          THEN LET reports == Reports(SortDirs(listS3Prefixes))
               IN  Some([status |-> 200,
                         body   |-> [total |-> Len(reports), reports |-> reports]])
          ELSE Some([status |-> 500, body |-> [error |-> "listing failed"]])
    /\ UNCHANGED <<pipeline, bucket, view>>

\* pipeline_results.json of a finished run, and of a run whose report has
\* no K-1 data
FullResults ==
    [k1_data             |-> Some([partnership_name       |-> Some("<ORG_1>"),
                                   partner_type           |-> Some("null"),
                                   tax_year               |-> Some("2024"),
                                   capital_account_ending |-> Some(318500)]),
     financial_analysis  |-> Some([net_taxable_income |-> Some(0),
                                   total_income       |-> Some(60315)]),
     pii_stats           |-> Some([total_entities_detected |-> Some(7)]),
     processing_metadata |-> Some([report_generated_at |-> Some("2024-11-05T10:15:00Z")]),
     validation          |-> Some([overall_status |-> Some("warnings")])]

BareResults ==
    [k1_data             |-> None,
     financial_analysis  |-> None,
     pii_stats           |-> None,
     processing_metadata |-> None,
     validation          |-> None]

\* what an output directory may hold: only the K-1 report, a
\* pipeline_results.json that does not parse, or one that does
DirContents(d) ==
    CASE d = DirOrder[1] ->
             {[key \in {<<"output", d, "k1_report.json">>} |-> Some(BareResults)]}
             \cup {[key \in {<<"output", d, "pipeline_results.json">>} |-> body] :
                      body \in Opt({FullResults})}
      [] d = DirOrder[2] ->
             {[key \in {<<"output", d, "pipeline_results.json">>} |-> body] :
                 body \in Opt({FullResults})}
      [] OTHER ->
             {[key \in {<<"output", d, "k1_report.json">>} |-> Some(BareResults)],
              [key \in {<<"output", d, "pipeline_results.json">>} |-> Some(BareResults)]}

\* the placeholder mapping of the staged sanitized text
SanitizedText ==
    Some([placeholder_mapping |->
             Some([k \in {"<ORG_1>"} |-> "Sunbelt Fund II"])])

\* the staging area: empty, the run's own sanitized text, or one at the root
StagingContents ==
    {<<>>,
     [key \in {<<"staging", "k1_sunbelt", "sanitized_text.json">>} |-> SanitizedText],
     [key \in {<<"staging", "sanitized_text.json">>} |-> SanitizedText]}

\* f and g together, for functions on disjoint sets of keys
Merge(f, g) ==
    [key \in (DOMAIN f) \cup (DOMAIN g) |->
        IF key \in DOMAIN f THEN f[key] ELSE g[key]]

\* the buckets the server may find: any of the output directories with any
\* content, any staging area, and a bucket that cannot be reached
BucketInputs ==
    {[reachable |-> TRUE,
      objects   |-> Merge(Merge(Merge(a, b), c), st)] :
        a \in {<<>>} \cup DirContents(DirOrder[1]),
        b \in {<<>>} \cup DirContents(DirOrder[2]),
        c \in {<<>>} \cup DirContents(DirOrder[3]),
        st \in StagingContents}
    \cup {[reachable |-> FALSE,
           objects   |-> [key \in {<<"output", DirOrder[1], "pipeline_results.json">>}
                             |-> Some(FullResults)]]}

\* the pipeline has not run; the bucket holds what earlier runs left
InitFrontend ==
    /\ pc = [r \in Runs |-> "pending"]
    /\ doc = [r \in Runs |-> NoDoc]
    /\ step = [r \in Runs |-> 0]
    /\ checks = [r \in Runs |-> <<>>]
    /\ det = [r \in Runs |-> None]
    /\ ai = [r \in Runs |-> None]
    /\ combined = [r \in Runs |-> None]
    /\ parquet = <<>>
    /\ lock = 0
    /\ buf = [r \in Runs |-> <<>>]
    /\ versions = << <<>> >>
    /\ snapshot = <<>>
    /\ cross = CrossPartnerResults(<<>>, "seed-a")
    /\ bucket \in BucketInputs
    /\ response = <<>>
    /\ view = <<>>

\* the browser asks for the report list or renders a report's validation tab
NextFrontend ==
    \/ GetApiReports
    \/ ReportDetail

SpecFrontend == InitFrontend /\ [][NextFrontend]_vars

----------------------------------------------------------------------------
(* C29: the cross-partner results shown with one report *)

\* the validation tab has been rendered from cross-partner data that has a
\* list of results and a placeholder mapping one of whose values is an EIN
RenderedWithEin ==
    /\ NotNone(view)
    /\ NotNone(Val(view).cpData)
    /\ NotNone(Val(Val(view).cpData).results)
    /\ NotNone(Val(view).mapping)
    /\ \E k \in DOMAIN Val(Val(view).mapping) :
           EIN_RE(Trim(Val(Val(view).mapping)[k]))

\* the EIN of the mapping: the value, without outer blanks, of the least
\* placeholder whose value is an EIN
MappedEin ==
    LET m     == Val(Val(view).mapping)
        eins  == {i \in DOMAIN PlaceholderOrder :
                     /\ PlaceholderOrder[i] \in DOMAIN m
                     /\ EIN_RE(Trim(m[PlaceholderOrder[i]]))}
        least == CHOOSE i \in eins : \A j \in eins : i <= j
    IN  Trim(m[PlaceholderOrder[least]])

\* C29: the filtered view holds only results of the mapping's EIN; its
\* summary has total_checks = the number of results shown, passed + failed =
\* total_checks, and critical + warnings + advisory <= failed, each of the
\* three counting failing results only.
C29_FilteredViewAndSummary ==
    RenderedWithEin =>
        LET shown   == Val(Val(view).crossPartnerData)
            results == Val(shown.results)
            summary == shown.summary
            FailingAt(severity) ==
                {i \in DOMAIN results :
                    ~results[i].passed /\ results[i].severity = severity}
        IN  /\ \A i \in DOMAIN results : results[i].partnership_ein = MappedEin
            /\ summary.total_checks = Len(results)
            /\ summary.passed + summary.failed = summary.total_checks
            /\ summary.critical + summary.warnings + summary.advisory
                   <= summary.failed
            /\ summary.critical = Cardinality(FailingAt("critical"))
            /\ summary.warnings = Cardinality(FailingAt("warning"))
            /\ summary.advisory = Cardinality(FailingAt("advisory"))

\* five results, four of one partnership and one of another, shown with a
\* mapping that holds both EINs, the other partnership's under the lesser
\* placeholder: the one failing critical result is shown
C29_Witness ==
    /\ RenderedWithEin
    /\ Cardinality(DOMAIN Val(Val(view).mapping)) = 2
    /\ \A k \in DOMAIN Val(Val(view).mapping) : EIN_RE(Trim(Val(Val(view).mapping)[k]))
    /\ Len(Val(Val(Val(view).cpData).results)) = 5
    /\ LET summary == Val(Val(view).crossPartnerData).summary
       IN  /\ summary.total_checks = 1
           /\ summary.passed = 0
           /\ summary.failed = 1
           /\ summary.critical = 1

----------------------------------------------------------------------------
(* C30: the report list *)

\* the output directories whose pipeline_results.json is there and parses
ReadableDirs ==
    {d \in {DirOrder[i] : i \in DOMAIN DirOrder} :
        /\ <<"output", d, "pipeline_results.json">> \in DOMAIN bucket.objects
        /\ bucket.objects[<<"output", d, "pipeline_results.json">>] # <<>>}

\* the output directories that hold an object
OutputDirs ==
    {key[2] : key \in {k \in DOMAIN bucket.objects : Len(k) = 3 /\ k[1] = "output"}}

=============================================================================
